---- MODULE Spec2Model ----
(***************************************************************************)
(* FinOps backend: the billing-CSV analysis core.                          *)
(*                                                                         *)
(*   _rows_from_text / _analyze_text     api/app.py                        *)
(*   analyze_csv_rows                    api/utils/analyze.py              *)
(*   _rightsizing_simulator              api/app.py                        *)
(*                                                                         *)
(* Numbers.  Python floats are modelled as exact decimals held in          *)
(* integers; round(x, n) is round-half-even on the exact value.            *)
(*   - a parsed CSV numeral (float(s)) is held in THOUSANDTHS              *)
(*   - revenue, cost, margin, totals after round(., 2) are held in CENTS   *)
(*   - license_waste_pct after round(., 1) is held in TENTHS of a percent  *)
(*   - recoverable_factor is held in TENTHS (0.8 is 8)                     *)
(***************************************************************************)
EXTENDS Integers, Sequences, FiniteSets, TLC

VARIABLES
    fieldnames,        \* the CSV's header row, as written (DictReader.fieldnames)
    rows,              \* the CSV's data rows: each a function header -> cell text
    pc,                \* "input" | "analyzed" | "failed" | "simulated"
    status,            \* HTTP status of the analysis: 0 (not run), 200, 400
    has_revenue_cost,  \* app.py:396, the schema _analyze_text detected
    insights,          \* analyze.py:14-59, the per-row list before the sort
    ar,                \* the AnalyzeResponse _analyze_text returns
    factor,            \* recoverable_factor of the last simulation (tenths)
    sims,              \* the mapping _rightsizing_simulator returns
    payload,           \* the body of the last POST /budgets: client -> JSON value
    stored,            \* the budgets object in storage: client -> JSON value
    save_status,       \* HTTP status of the last POST /budgets (0: none yet)
    loaded,            \* what _load_budgets_for_user last returned
    budget_op,         \* the last budgets operation: "none" | "saved" | "loaded"
    alerts,            \* the list _compute_alerts returns
    industry,          \* the industry query parameter of GET /benchmarks
    bench,             \* the BenchmarkResponse of GET /benchmarks
    calls,             \* the invocations of _rightsizing_simulator made so far
    fetch,             \* GET /analyze without a key: the sources and the answer
    routing,           \* the route table of the application and the last answer
    limiter,           \* _rate_log, the clock and the last decision of rate_limit
    history,           \* the uploaded objects and the last by-key request
    records,           \* the budget records by sub and the last budgets request
    storage,           \* the S3 and local budgets objects of one (sub, tenant)
    auth,              \* the last call of cognito_optional_user
    aicall,            \* the last call of get_ai_json
    db                 \* the database session and tables of the actions router

analysisVars == <<fieldnames, rows, pc, status, has_revenue_cost, insights, ar, factor, sims>>

budgetVars == <<payload, stored, save_status, loaded, budget_op>>

reportVars == <<alerts, industry, bench>>

coreVars == <<analysisVars, budgetVars, reportVars>>

extVars == <<calls, fetch, routing, limiter, history, records, storage, auth, aicall, db>>

vars == <<coreVars, extVars>>

(***************************************************************************)
(* Bounds                                                                  *)
(***************************************************************************)
MaxRows == 2

(***************************************************************************)
(* Cells and Python's truthiness, float() and round()                      *)
(***************************************************************************)
\* dict.get on a missing key, and DictReader's restval for a short row
None == "<None>"

\* float(s): the numerals of the model and their values, in thousandths.
\* Every other text makes float() raise ValueError.
FloatValue ==
    [s \in {"0", "5", "10", "15", "50", "80", "100", "199", "200", "1749",
            "2500", "-3", "0.006", "0.002", "1.25", "2"} |->
        CASE s = "0"     -> 0
          [] s = "2"     -> 2000
          [] s = "5"     -> 5000
          [] s = "10"    -> 10000
          [] s = "15"    -> 15000
          [] s = "50"    -> 50000
          [] s = "80"    -> 80000
          [] s = "100"   -> 100000
          [] s = "199"   -> 199000
          [] s = "200"   -> 200000
          [] s = "1749"  -> 1749000
          [] s = "2500"  -> 2500000
          [] s = "-3"    -> -3000
          [] s = "0.006" -> 6
          [] s = "0.002" -> 2
          [] s = "1.25"  -> 1250]

FloatRaises(s) == s \notin DOMAIN FloatValue

\* bool(v) of a cell: None and "" are falsy
Truthy(v) == v # None /\ v # ""

\* r.get(k): None when the row has no such key (keys are case-sensitive)
Get(r, k) == IF k \in DOMAIN r THEN r[k] ELSE None

\* `a or b`
Or(a, b) == IF Truthy(a) THEN a ELSE b

\* str.strip(): the whitespace-bearing texts of the model are " " and " IT "
Strip(s) ==
    CASE s = " "    -> ""
      [] s = " IT " -> "IT"
      [] OTHER -> s

\* str.lower() on the header names of the model
Lower(s) ==
    CASE s = "Client"  -> "client"
      [] s = "Revenue" -> "revenue"
      [] s = "COST"    -> "cost"
      [] s = "Cost"    -> "cost"
      [] s = "Service" -> "service"
      [] s = "UsageType" -> "usagetype"
      [] s = "MSP"     -> "msp"
      [] s = "SaaS"    -> "saas"
      [] s = "IT"      -> "it"
      [] s = "General" -> "general"
      [] s = "FinTech" -> "fintech"
      [] OTHER -> s

\* The integer nearest to n/d (d > 0), ties to the even integer: round()
RoundHalfEven(n, d) ==
    LET q == n \div d
        r == n % d
    IN  IF 2 * r < d THEN q
        ELSE IF 2 * r > d THEN q + 1
        ELSE IF q % 2 = 0 THEN q ELSE q + 1

\* round(x, 2) of an amount in thousandths, giving cents
Round2(x) == RoundHalfEven(x, 10)

Max(a, b) == IF a >= b THEN a ELSE b

\* try: float(v or 0) except: 0.0          (app.py _float, analyze.py 19-27)
_float(v) ==
    IF ~Truthy(v) THEN 0
    ELSE IF FloatRaises(v) THEN 0
    ELSE FloatValue[v]

RECURSIVE SumSeq(_)
SumSeq(s) == IF s = <<>> THEN 0 ELSE s[1] + SumSeq(Tail(s))

(***************************************************************************)
(* sorted(): Python's sort is stable, also with reverse=True               *)
(***************************************************************************)
\* s (sorted by margin) with x put behind every element whose margin is not
\* greater: one step of a stable ascending sort
RECURSIVE InsertByMargin(_, _)
InsertByMargin(s, x) ==
    IF s = <<>> THEN <<x>>
    ELSE IF s[1].margin <= x.margin THEN <<s[1]>> \o InsertByMargin(Tail(s), x)
    ELSE <<x>> \o s

\* sorted(s, key=lambda x: x["margin"])
RECURSIVE SortedByMargin(_)
SortedByMargin(s) ==
    IF s = <<>> THEN <<>>
    ELSE InsertByMargin(SortedByMargin(SubSeq(s, 1, Len(s) - 1)), s[Len(s)])

\* s (pairs <<label, cost>>, sorted by cost descending) with x put behind
\* every element whose cost is not smaller: a stable descending sort
RECURSIVE InsertByCostDesc(_, _)
InsertByCostDesc(s, x) ==
    IF s = <<>> THEN <<x>>
    ELSE IF s[1][2] >= x[2] THEN <<s[1]>> \o InsertByCostDesc(Tail(s), x)
    ELSE <<x>> \o s

\* sorted(items, key=lambda kv: kv[1], reverse=True)
RECURSIVE SortedByCostDesc(_)
SortedByCostDesc(s) ==
    IF s = <<>> THEN <<>>
    ELSE InsertByCostDesc(SortedByCostDesc(SubSeq(s, 1, Len(s) - 1)), s[Len(s)])

(***************************************************************************)
(* analyze_csv_rows                                     utils/analyze.py   *)
(***************************************************************************)
\* analyze.py:17
ClientOf(r) == Strip(Or(Get(r, "client"), Or(Get(r, "name"), "Unknown")))

\* analyze.py:29-34: ONE try block around both conversions; the except
\* branch resets both.  The pair is <<licenses_used, licenses_purchased>>.
LicensesOf(r) ==
    LET u == Or(Get(r, "licenses_used"), "0")
        p == Or(Get(r, "licenses_purchased"), "0")
    IN  IF FloatRaises(u) \/ FloatRaises(p) THEN <<0, 0>>
        ELSE <<FloatValue[u], FloatValue[p]>>

\* The percentage without the clamp max(0.0, .)
WasteFractionNoClamp(used, purchased) ==
    IF purchased > 0
    THEN <<(purchased - used) * 100, purchased>>
    ELSE <<0, 1>>

\* analyze.py:39-43, as the fraction <<numerator, denominator>> of a percent
\* (the unrounded license_waste_pct)
WasteFraction(used, purchased) ==
    IF purchased > 0
    THEN <<Max(0, (purchased - used) * 100), purchased>>
    ELSE <<0, 1>>

\* analyze.py:46-50
HealthOf(margin, waste) ==
    IF margin < 0 THEN "At Risk"
    ELSE IF waste[1] > 30 * waste[2] THEN "Inefficient"
    ELSE "Healthy"

\* analyze.py:16-59, the body of the loop for one row
InsightOf(r) ==
    LET revenue == _float(Get(r, "revenue"))
        cost    == _float(Get(r, "cost"))
        lic     == LicensesOf(r)
        margin  == Round2(revenue - cost)
        waste   == WasteFraction(lic[1], lic[2])
    IN  [client            |-> ClientOf(r),
         revenue           |-> Round2(revenue),
         cost              |-> Round2(cost),
         margin            |-> margin,
         license_waste_pct |-> RoundHalfEven(waste[1] * 10, waste[2]),
         health            |-> HealthOf(margin, waste)]

\* analyze.py:14-59: the list `insights`, in row order
InsightsOf(rs) == [i \in 1..Len(rs) |-> InsightOf(rs[i])]

\* The list returned as built, without the sort
SortInsightsUnsorted(ins) == ins

\* analyze.py:62
SortInsights(ins) == SortedByMargin(ins)

\* The rows of one client merged: a later row of a client replaces the
\* earlier one
analyze_csv_rows_merged(rs) ==
    LET ins  == InsightsOf(rs)
        keep == {i \in DOMAIN ins : \A j \in DOMAIN ins : j > i => ins[j].client # ins[i].client}
        Pick[k \in 0..Len(ins)] ==
            IF k = 0 THEN <<>>
            ELSE IF k \in keep THEN Append(Pick[k - 1], ins[k]) ELSE Pick[k - 1]
    IN  SortInsights(Pick[Len(ins)])

\* analyze.py:6-63
analyze_csv_rows(rs) == SortInsights(InsightsOf(rs))

(***************************************************************************)
(* _rows_from_text and _analyze_text                            app.py    *)
(***************************************************************************)
\* app.py:389: fields = [f.lower() for f in reader.fieldnames]
LowerFields(fs) == {Lower(f) : f \in fs}

\* app.py:396
HasRevenueCost(fs) == "revenue" \in LowerFields(fs) /\ "cost" \in LowerFields(fs)

\* The guard taking a single row for no rows
NoRowsSingle(rs) == Len(rs) <= 1

\* app.py:394: `not rows`
NoRows(rs) == Len(rs) = 0

\* app.py:413: the label a cost-only row is grouped under
ServiceOf(r) == Or(Get(r, "Service"), Or(Get(r, "UsageType"), "Unknown"))

\* The update assigning instead of accumulating
RECURSIVE DictAddOverwrite(_, _, _)
DictAddOverwrite(items, svc, cst) ==
    IF items = <<>> THEN << <<svc, cst>> >>
    ELSE IF items[1][1] = svc
         THEN << <<svc, cst>> >> \o Tail(items)
         ELSE << items[1] >> \o DictAddOverwrite(Tail(items), svc, cst)

\* by_service[svc] = by_service.get(svc, 0.0) + cst on a dict kept as the
\* sequence of its <<key, value>> items in insertion order
RECURSIVE DictAdd(_, _, _)
DictAdd(items, svc, cst) ==
    IF items = <<>> THEN << <<svc, cst>> >>
    ELSE IF items[1][1] = svc
         THEN << <<svc, items[1][2] + cst>> >> \o Tail(items)
         ELSE << items[1] >> \o DictAdd(Tail(items), svc, cst)

\* app.py:411-414: by_service after the loop over the rows
RECURSIVE ByService(_)
ByService(rs) ==
    IF rs = <<>> THEN <<>>
    ELSE LET r == rs[Len(rs)]
         IN  DictAdd(ByService(SubSeq(rs, 1, Len(rs) - 1)),
                     ServiceOf(r), _float(Get(r, "Cost")))

\* app.py:417-420: the pseudo-client of one group
PseudoClient(kv) ==
    [client            |-> kv[1],
     revenue           |-> Round2(kv[2]),
     cost              |-> Round2(kv[2]),
     margin            |-> 0,
     license_waste_pct |-> 0,
     health            |-> "Unknown"]

\* The totals summed over the rounded per-row insights instead of the raw rows
BillingResponseFromInsights(rs) ==
    LET ins == analyze_csv_rows(rs)
        total_revenue == SumSeq([i \in 1..Len(ins) |-> ins[i].revenue])
        total_cost    == SumSeq([i \in 1..Len(ins) |-> ins[i].cost])
    IN  [total_revenue   |-> total_revenue,
         total_cost      |-> total_cost,
         total_profit    |-> total_revenue - total_cost,
         client_insights |-> ins]

\* app.py:398-407: the billing-schema response
BillingResponse(rs) ==
    LET total_revenue == SumSeq([i \in 1..Len(rs) |-> _float(Get(rs[i], "revenue"))])
        total_cost    == SumSeq([i \in 1..Len(rs) |-> _float(Get(rs[i], "cost"))])
    IN  [total_revenue   |-> Round2(total_revenue),
         total_cost      |-> Round2(total_cost),
         total_profit    |-> Round2(total_revenue - total_cost),
         client_insights |-> analyze_csv_rows(rs)]

\* app.py:409-426: the cost-only response
CostOnlyResponse(rs) ==
    LET total_cost ==
            SumSeq([i \in 1..Len(rs) |->
                IF "Cost" \in DOMAIN rs[i] THEN _float(Get(rs[i], "Cost")) ELSE 0])
        total_revenue == total_cost
        sorted == SortedByCostDesc(ByService(rs))
    IN  [total_revenue   |-> Round2(total_revenue),
         total_cost      |-> Round2(total_cost),
         total_profit    |-> 0,
         client_insights |-> [i \in 1..Len(sorted) |-> PseudoClient(sorted[i])]]

\* No response yet
NoResponse ==
    [total_revenue |-> 0, total_cost |-> 0, total_profit |-> 0,
     client_insights |-> <<>>]

(***************************************************************************)
(* _rightsizing_simulator                               app.py:652-666    *)
(***************************************************************************)
\* The estimate with the recoverable factor left out
SavingsEntryNoFactor(c, f) ==
    LET savings   == Max(0, c.cost * c.license_waste_pct * 10)
        projected == Max(0, c.cost * 10000 - savings)
    IN  [savings_usd    |-> RoundHalfEven(savings, 10000),
         current_cost   |-> c.cost,
         projected_cost |-> RoundHalfEven(projected, 10000)]

\* app.py:659-665 for one insight with cost C (cents), waste W (tenths of a
\* percent) and factor f (tenths): cost * waste_pct * factor is C*W*f/10000
\* cents
SavingsEntry(c, f) ==
    LET num       == c.cost * c.license_waste_pct * f
        savings   == Max(0, num)
        projected == Max(0, c.cost * 10000 - savings)
    IN  [savings_usd    |-> RoundHalfEven(savings, 10000),
         current_cost   |-> c.cost,
         projected_cost |-> RoundHalfEven(projected, 10000)]

\* The skip test looking at the cost only
SkippedOnCostOnly(c) == c.cost <= 0

\* app.py:657
Skipped(c) == c.cost <= 0 \/ c.license_waste_pct <= 0

\* app.py:654-665: the loop, `out` being the dict built so far
RECURSIVE SimulateInto(_, _, _)
SimulateInto(ins, f, out) ==
    IF ins = <<>> THEN out
    ELSE SimulateInto(Tail(ins), f,
            IF Skipped(ins[1]) THEN out
            ELSE (ins[1].client :> SavingsEntry(ins[1], f)) @@ out)

\* app.py:652-666
_rightsizing_simulator(resp, f) == SimulateInto(resp.client_insights, f, <<>>)

\* The dict of the previous invocation kept as the starting `out`
OutKeptAcrossCalls(previous) == previous

\* app.py:653: every invocation starts from a new empty dict, whatever the
\* previous invocation returned
FreshOut(previous) == <<>>

(***************************************************************************)
(* Budgets: JSON values, _is_valid_number, save and load   app.py:759-813  *)
(***************************************************************************)
\* The JSON values of the model.  A number holds its value in thousandths.
JsonNumber(n) == [kind |-> "number", num |-> n, text |-> ""]
JsonString(t) == [kind |-> "string", num |-> 0, text |-> t]
JsonNull      == [kind |-> "null", num |-> 0, text |-> ""]
JsonTrue      == [kind |-> "bool", num |-> 1000, text |-> ""]
JsonList      == [kind |-> "list", num |-> 0, text |-> ""]
\* Python's json reads the tokens NaN and Infinity as floats
JsonNaN       == [kind |-> "nan", num |-> 0, text |-> ""]
JsonInfinity  == [kind |-> "inf", num |-> 0, text |-> ""]

\* float(v) of a JSON value: whether it raises, its value in thousandths,
\* and whether math.isfinite holds of it
PyFloat(v) ==
    CASE v.kind = "number" -> [raises |-> FALSE, value |-> v.num, finite |-> TRUE]
      [] v.kind = "bool"   -> [raises |-> FALSE, value |-> v.num, finite |-> TRUE]
      [] v.kind \in {"nan", "inf"} -> [raises |-> FALSE, value |-> 0, finite |-> FALSE]
      [] v.kind = "string" ->
            IF v.text \in DOMAIN FloatValue
            THEN [raises |-> FALSE, value |-> FloatValue[v.text], finite |-> TRUE]
            ELSE IF v.text \in {"nan", "inf"}
            THEN [raises |-> FALSE, value |-> 0, finite |-> FALSE]
            ELSE [raises |-> TRUE, value |-> 0, finite |-> FALSE]
      [] OTHER -> [raises |-> TRUE, value |-> 0, finite |-> FALSE]

\* The validity test without math.isfinite
IsValidNumberNoFinite(v) == ~PyFloat(v).raises

\* app.py:759-764
_is_valid_number(v) == ~PyFloat(v).raises /\ PyFloat(v).finite

\* The keys a comprehension `... for k, v in m.items() if _is_valid_number(v)`
\* keeps
ValidKeys(m) == {k \in DOMAIN m : _is_valid_number(m[k])}

\* Such a comprehension calls float(v) on the kept values: it raises when
\* one of them does
ComprehensionRaises(m) == \E k \in ValidKeys(m) : PyFloat(m[k]).raises

\* app.py:1177-1180 and 795: {str(k): max(0.0, float(v)) ... if valid}
CleanBudgets(m) == [k \in ValidKeys(m) |-> JsonNumber(Max(0, PyFloat(m[k]).value))]

\* app.py:777, 787: {str(k): float(v) ... if valid}, the floats in thousandths
LoadBudgets(obj) == [k \in ValidKeys(obj) |-> PyFloat(obj[k]).value]

(***************************************************************************)
(* _compute_alerts                                      app.py:843-859    *)
(***************************************************************************)
\* app.py:108-109: ALERT_WARN_PCT 0.9 and ALERT_BREACH_PCT 1.0, in tenths
ALERT_WARN_PCT == 9
ALERT_BREACH_PCT == 10

\* app.py:848: float(budgets.get(c.client, 0) or 0), in thousandths
BudgetOf(budgets, c) == IF c.client \in DOMAIN budgets THEN budgets[c.client] ELSE 0

\* The skip test letting a zero budget through
NoBudgetNegativeOnly(b) == b < 0

\* app.py:849
NoBudget(b) == b <= 0

\* app.py:851-858 for an insight with spend c.cost (cents) and budget b
\* (thousandths): pct = (spend / b) if b > 0 else 0.0 is the fraction
\* num / den; the thresholds are in tenths and the reported pct in tenths of
\* a percent
AlertOf(c, b, warn_pct, breach_pct) ==
    LET num == IF b > 0 THEN c.cost * 10 ELSE 0
        den == IF b > 0 THEN b ELSE 1
    IN  [client |-> c.client,
         budget |-> b,
         spend  |-> c.cost,
         pct    |-> RoundHalfEven(num * 1000, den),
         status |-> IF num * 10 >= breach_pct * den THEN "breach"
                    ELSE IF num * 10 >= warn_pct * den THEN "warn"
                    ELSE "ok"]

\* app.py:843-859
RECURSIVE _compute_alerts(_, _, _, _)
_compute_alerts(client_insights, budgets, warn_pct, breach_pct) ==
    IF client_insights = <<>> THEN <<>>
    ELSE LET c == client_insights[1]
             b == BudgetOf(budgets, c)
             rest == _compute_alerts(Tail(client_insights), budgets, warn_pct, breach_pct)
         IN  IF NoBudget(b) THEN rest
             ELSE <<AlertOf(c, b, warn_pct, breach_pct)>> \o rest

(***************************************************************************)
(* _weighted_avg_waste and get_benchmarks     app.py:637-650, 1491-1531   *)
(***************************************************************************)
\* The plain mean of the percentages, as the fraction <<sum, count>>
WeightedAvgWasteUnweighted(clients) ==
    IF clients = <<>> THEN <<0, 1>>
    ELSE <<SumSeq([i \in 1..Len(clients) |-> clients[i].license_waste_pct]), Len(clients)>>

\* app.py:637-650: the average as the fraction <<weighted, total_cost>>, in
\* tenths of a percent; <<0, 1>> stands for the 0.0 of lines 639 and 649
_weighted_avg_waste(clients) ==
    LET total_cost == SumSeq([i \in 1..Len(clients) |->
                        IF clients[i].cost > 0 THEN clients[i].cost ELSE 0])
        weighted   == SumSeq([i \in 1..Len(clients) |->
                        IF clients[i].cost > 0
                        THEN clients[i].cost * clients[i].license_waste_pct ELSE 0])
    IN  IF clients = <<>> THEN <<0, 1>>
        ELSE IF total_cost <= 0 THEN <<0, 1>>
        ELSE <<weighted, total_cost>>

\* str.upper() on the industry tags of the model
Upper(s) ==
    CASE s = "msp"     -> "MSP"
      [] s = "saas"    -> "SAAS"
      [] s = "it"      -> "IT"
      [] s = "general" -> "GENERAL"
      [] s = "fintech" -> "FINTECH"
      [] OTHER -> s

\* app.py:1511-1516, in tenths of a percent
base_map == [k \in {"msp", "saas", "it", "general"} |->
    CASE k = "msp" -> 220 [] k = "saas" -> 180 [] k = "it" -> 250 [] k = "general" -> 200]

\* app.py:1510: (industry or "msp").strip().lower()
NormalizeIndustry(tag) == Lower(Strip(IF tag = "" THEN "msp" ELSE tag))

\* The lookup without lower()
IndustryAvgCaseSensitive(tag) ==
    LET key == Strip(IF tag = "" THEN "msp" ELSE tag)
    IN  IF key \in DOMAIN base_map THEN base_map[key] ELSE base_map["msp"]

\* app.py:1517: base_map.get(industry, base_map["msp"])
IndustryAvg(tag) ==
    LET key == NormalizeIndustry(tag)
    IN  IF key \in DOMAIN base_map THEN base_map[key] ELSE base_map["msp"]

\* sum(... for v in sims.values()) of one field of the entries
RECURSIVE SumProjected(_)
SumProjected(sm) ==
    IF DOMAIN sm = {} THEN 0
    ELSE LET n == CHOOSE x \in DOMAIN sm : TRUE
         IN  sm[n].projected_cost + SumProjected([k \in DOMAIN sm \ {n} |-> sm[k]])

\* app.py:1520: sum(v.get("savings_usd", 0.0) for v in sims.values()), cents
RECURSIVE PotentialSavings(_)
PotentialSavings(sm) ==
    IF DOMAIN sm = {} THEN 0
    ELSE LET n == CHOOSE x \in DOMAIN sm : TRUE
         IN  sm[n].savings_usd + PotentialSavings([k \in DOMAIN sm \ {n} |-> sm[k]])

\* app.py:1522-1531, your_waste being the unrounded average of line 1508
BenchmarkOf(resp, tag) ==
    LET your_waste == _weighted_avg_waste(resp.client_insights)
    IN  [industry               |-> Upper(NormalizeIndustry(tag)),
         industry_avg_waste_pct |-> IndustryAvg(tag),
         your_waste             |-> your_waste,
         your_waste_pct         |-> RoundHalfEven(your_waste[1], your_waste[2]),
         potential_savings_usd  |-> PotentialSavings(_rightsizing_simulator(resp, 8))]

\* No benchmark yet
NoBenchmark ==
    [industry |-> "", industry_avg_waste_pct |-> 0, your_waste |-> <<0, 1>>,
     your_waste_pct |-> 0, potential_savings_usd |-> 0]

(***************************************************************************)
(* _read_billing_csv_text and GET /analyze     app.py:494-511, 1281-1321  *)
(***************************************************************************)
\* A CSV text, held as what csv.DictReader reads from it; NoText is Python's
\* None
CsvText(h, rs) == [present |-> TRUE, fieldnames |-> h, rows |-> rs]
NoText == [present |-> FALSE, fieldnames |-> {}, rows |-> <<>>]

\* s3_utils.py:59-82: the text of the object, None on any error
read_s3_file(readable, text) == IF readable THEN text ELSE NoText

\* app.py:1311-1313: eff_source, None unless "s3" or "local"
EffSource(source) == IF source \in {"s3", "local"} THEN source ELSE None

\* The test that never takes the local file
LocalNeverNeeded(csv_text) == FALSE

\* app.py:504: `if csv_text is None`
LocalNeeded(csv_text) == ~csv_text.present

\* app.py:494-511 on the sources f: the status (404 when the function
\* raises), the text and where it came from
_read_billing_csv_text(force_source, f) ==
    LET from_s3 == IF force_source # "local" /\ f.s3_configured
                   THEN read_s3_file(f.s3_readable, f.s3_text)
                   ELSE NoText
    IN  IF LocalNeeded(from_s3)
        THEN IF ~f.local_exists
             THEN [status |-> 404, text |-> NoText, origin |-> "none"]
             ELSE [status |-> 200, text |-> f.local_text, origin |-> "local"]
        ELSE [status |-> 200, text |-> from_s3,
              origin |-> IF from_s3.present THEN "s3" ELSE "none"]

\* app.py:392-426 on a text: io.StringIO(None) is empty, as is ""
_analyze_text(text) ==
    IF NoRows(text.rows)
    THEN [status |-> 400, has_revenue_cost |-> FALSE, insights |-> <<>>, ar |-> NoResponse]
    ELSE [status |-> 200,
          has_revenue_cost |-> HasRevenueCost(text.fieldnames),
          insights |-> IF HasRevenueCost(text.fieldnames) THEN InsightsOf(text.rows) ELSE <<>>,
          ar |-> IF HasRevenueCost(text.fieldnames)
                 THEN BillingResponse(text.rows) ELSE CostOnlyResponse(text.rows)]

(***************************************************************************)
(* The route table                      app.py:161-184, 1103, 1588, 1663  *)
(***************************************************************************)
Route(method, path, endpoint) == [method |-> method, path |-> path, endpoint |-> endpoint]

\* routers/actions_routes.py:10-11, 79-118
ActionsRouter ==
    << Route("POST", "/api/actions/execute", "actions_routes.execute"),
       Route("GET", "/api/actions", "actions_routes.list") >>
ActionsRouterCompat ==
    << Route("POST", "/actions/execute", "actions_routes.execute_compat"),
       Route("GET", "/actions", "actions_routes.list_compat") >>

\* routers/history_routes.py:8-9, 20-64
HistoryRouter ==
    << Route("GET", "/api/history", "history_routes.list"),
       Route("GET", "/api/history/recent", "history_routes.recent"),
       Route("POST", "/api/history/add", "history_routes.add") >>
HistoryRouterCompat ==
    << Route("GET", "/history", "history_routes.list_compat"),
       Route("GET", "/history/recent", "history_routes.recent_compat"),
       Route("POST", "/history/add", "history_routes.add_compat") >>

\* routers/mockclients_routes.py:5, 16-19
MockclientsRouter == << Route("GET", "/mockclients", "mockclients_routes.mockclients") >>

\* The registrations in the order app.py makes them: the first /health, the
\* routers of _mount_routers, the routers again and the mockclients router,
\* then the application's own routes of the paths of the model
Registrations ==
    << Route("GET", "/health", "health") >>
    \o ActionsRouter \o ActionsRouterCompat \o HistoryRouter \o HistoryRouterCompat
    \o ActionsRouter \o ActionsRouterCompat \o HistoryRouter \o HistoryRouterCompat
    \o MockclientsRouter
    \o << Route("GET", "/health", "health_alias"),
          Route("GET", "/history", "app.history"),
          Route("GET", "/actions", "app.actions"),
          Route("GET", "/mockclients", "app.mockclients"),
          Route("GET", "/api/health", "api_health_alias"),
          Route("GET", "/api/mockclients", "api_mockclients_alias") >>

\* The routes of the table serving the request, in registration order
Matching(table, method, path) ==
    SelectSeq(table, LAMBDA r : r.method = method /\ r.path = path)

\* A JSON body: an object with its keys, or an array
JsonObject(keys) == [kind |-> "object", keys |-> keys]
JsonArray == [kind |-> "array", keys |-> {}]

\* What an endpoint of the model answers; mock_enabled is
\* MOCK_CLIENTS_ENABLED=true, read by app.mockclients at each request
Answer(endpoint, mock_enabled) ==
    CASE endpoint \in {"health", "health_alias", "api_health_alias"} ->
            [status |-> 200, body |-> JsonObject({"status", "message"})]
      [] endpoint = "mockclients_routes.mockclients" ->
            [status |-> 200, body |-> JsonArray]
      [] endpoint \in {"app.mockclients", "api_mockclients_alias"} ->
            [status |-> 200,
             body |-> IF mock_enabled THEN JsonObject({"clients"}) ELSE JsonArray]
      [] OTHER -> [status |-> 200, body |-> JsonObject({"items"})]

\* The router serves the first registered route that matches, 404 if none
Serve(table, method, path, mock_enabled) ==
    LET m == Matching(table, method, path)
    IN  IF m = <<>>
        THEN [endpoint |-> "", status |-> 404, body |-> JsonObject({"detail"})]
        ELSE [endpoint |-> m[1].endpoint,
              status |-> Answer(m[1].endpoint, mock_enabled).status,
              body |-> Answer(m[1].endpoint, mock_enabled).body]

(***************************************************************************)
(* Rate limiting         app.py:226-242, backend/utils/rate_limit.py:6-27 *)
(***************************************************************************)
\* app.py:237-239: while bucket and bucket[0] < cutoff: bucket.pop(0)
RECURSIVE DropBefore(_, _)
DropBefore(bucket, cutoff) ==
    IF bucket # <<>> /\ bucket[1] < cutoff
    THEN DropBefore(Tail(bucket), cutoff)
    ELSE bucket

\* rate_limit.py:20-21: while dq and (now - dq[0]) > self.window: dq.popleft()
RECURSIVE DropOlder(_, _, _)
DropOlder(dq, now, window) ==
    IF dq # <<>> /\ (now - dq[1]) > window
    THEN DropOlder(Tail(dq), now, window)
    ELSE dq

\* The test admitting one request more
BucketFullAbove(bucket, limit) == Len(bucket) > limit

\* app.py:240: len(bucket) >= RATE_LIMIT_MAX_REQUESTS
BucketFull(bucket, limit) == Len(bucket) >= limit

\* app.py:231-242 on the bucket of one ip: the bucket afterwards and the
\* status, 429 when HTTPException is raised
rate_limit(enabled, bucket, now, window, limit) ==
    IF ~enabled
    THEN [bucket |-> bucket, allowed |-> TRUE, status |-> 200, remaining |-> 0]
    ELSE LET kept == DropBefore(bucket, now - window)
         IN  IF BucketFull(kept, limit)
             THEN [bucket |-> kept, allowed |-> FALSE, status |-> 429, remaining |-> 0]
             ELSE [bucket |-> Append(kept, now), allowed |-> TRUE, status |-> 200,
                   remaining |-> 0]

\* rate_limit.py:16-27 on the deque of one key: the deque afterwards and the
\* pair returned
allow(dq, now, window, limit) ==
    LET kept == DropOlder(dq, now, window)
    IN  IF Len(kept) < limit
        THEN [bucket |-> Append(kept, now), allowed |-> TRUE, status |-> 200,
              remaining |-> limit - (Len(kept) + 1)]
        ELSE [bucket |-> kept, allowed |-> FALSE, status |-> 429, remaining |-> 0]

(***************************************************************************)
(* History keys and the endpoints taking one   app.py:513-531, 1281-1475  *)
(***************************************************************************)
\* A key is held as the sequence of its segments between "/", so that
\* "uploads/alice/a.csv" is <<"uploads", "alice", "a.csv">>; the upload prefix
\* S3_UPLOAD_PREFIX "uploads/" is the first segment "uploads"
UploadPrefix == "uploads"

\* app.py:525-531; a missing sub is None
_key_allowed_for_user(key, user_sub, prefix) ==
    IF key = <<>> \/ user_sub = None \/ user_sub = "" THEN FALSE
    ELSE IF \E i \in DOMAIN key : key[i] = ".." THEN FALSE
    ELSE Len(key) >= 3 /\ key[1] = prefix /\ key[2] = user_sub

\* app.py:513-523 on the bucket h: 400 without S3, 404 when the read fails
_read_history_csv_text(key, h) ==
    IF key = <<>> THEN 400
    ELSE IF ~h.s3_configured THEN 400
    ELSE IF key \notin h.objects THEN 404
    ELSE 200

\* The endpoints that read the key with _read_history_csv_text and make no
\* test of the caller: analyze (app.py:1288-1298), get_benchmarks
\* (app.py:1498-1499), export_pdf (app.py:1606-1607)
UncheckedEndpoints == {"/analyze?key", "/benchmarks?key", "/export/pdf?key"}

\* The endpoints behind get_current_user and _key_allowed_for_user:
\* app.py:1392-1475
CheckedEndpoints ==
    {"/analyze/by-key", "/recommend/by-key", "/history/presign", "DELETE /history"}

\* The status of a request of caller c for key on endpoint e, the storage
\* operations being taken to succeed on an object that exists
ByKeyStatus(e, key, c, h) ==
    IF e \in UncheckedEndpoints
    THEN _read_history_csv_text(key, h)
    ELSE IF ~c.verified THEN 401
    ELSE IF ~h.s3_configured THEN 400
    ELSE IF ~_key_allowed_for_user(key, c.sub, UploadPrefix) THEN 403
    ELSE IF e \in {"/analyze/by-key", "/recommend/by-key"} /\ key \notin h.objects THEN 404
    ELSE IF e = "DELETE /history" /\ key \notin h.objects THEN 500
    ELSE 200

(***************************************************************************)
(* The caller of the budgets endpoints    app.py:275-292, 740-757, 1152-  *)
(* 1184                                                                    *)
(***************************************************************************)
\* app.py:105: PUBLIC_BUDGET_SUB, "default" unless configured
PUBLIC_BUDGET_SUB == "default"

\* The user dict: whether it is non-empty, and its "sub" (None when absent)
UserDict(truthy, sub) == [truthy |-> truthy, sub |-> sub]

\* app.py:275-292 for credentials cred: "none" (no Bearer header), "valid"
\* (verify_bearer returns the claims, whose sub is cred.sub) or "invalid"
\* (verify_bearer raises 401)
get_user_optional(cognito_enabled, allow_public, cred) ==
    IF cognito_enabled /\ cred.kind = "invalid"
    THEN [raises |-> TRUE, user |-> UserDict(FALSE, None)]
    ELSE IF cognito_enabled /\ cred.kind = "valid"
    THEN [raises |-> FALSE, user |-> UserDict(TRUE, cred.sub)]
    ELSE IF allow_public
    THEN [raises |-> FALSE, user |-> UserDict(TRUE, "public-demo")]
    ELSE [raises |-> FALSE, user |-> UserDict(FALSE, None)]

\* app.py:1157-1159, 1171-1173: the sub whose record is read or written
BudgetSub(user) ==
    LET sub == IF user.sub = None \/ user.sub = "" THEN PUBLIC_BUDGET_SUB ELSE user.sub
    IN  IF sub = "public-demo" THEN PUBLIC_BUDGET_SUB ELSE sub

\* The test letting every caller through
AuthorisedAlways(cognito_enabled, allow_public, user) == TRUE

\* app.py:1168: (COGNITO_ENABLED and user) or ALLOW_PUBLIC_ACTIONS
Authorised(cognito_enabled, allow_public, user) ==
    (cognito_enabled /\ user.truthy) \/ allow_public

\* app.py:743-745 on the tenants of the model: ".." and "/" become "_"
SanitizeTenant(t) == IF t = "../t1" THEN "__t1" ELSE t

\* app.py:740-746, BUDGETS_TENANT_DEFAULT being "default"
_tenant_or_default(tenanted, q_tenant) ==
    IF ~tenanted THEN ""
    ELSE SanitizeTenant(IF q_tenant = None \/ q_tenant = "" THEN "default" ELSE q_tenant)

\* app.py:748-757: the place of the record of (sub, tenant), as the pair of
\* its directory and its file name without ".json"
BudgetsPath(tenanted, sub, tenant) == <<_tenant_or_default(tenanted, tenant), sub>>

\* app.py:1152-1160: GET /budgets of a caller, on the records r
get_budgets(cred, tenant, r) ==
    LET u == get_user_optional(r.cognito_enabled, r.allow_public, cred)
        path == BudgetsPath(r.tenanted, BudgetSub(u.user), tenant)
    IN  IF u.raises THEN [status |-> 401, budgets |-> <<>>]
        ELSE [status |-> 200,
              budgets |-> IF ComprehensionRaises(r.store[path]) THEN <<>>
                          ELSE LoadBudgets(r.store[path])]

(***************************************************************************)
(* The stores of the budgets            app.py:766-813, s3_utils.py:13-106 *)
(***************************************************************************)
\* A stored object: absent, or the JSON object json.dumps wrote
NoObject == [present |-> FALSE, json |-> <<>>]
StoredObject(m) == [present |-> TRUE, json |-> m]

\* app.py:792-813 on the stores st, put_s3_object succeeding when s3_ok and
\* the local write when local_ok: the value returned and the stores after
_save_budgets_for_user(sub, budgets, tenant, st, s3_ok, local_ok) ==
    LET cleaned == CleanBudgets(budgets)
        path    == BudgetsPath(st.tenanted, sub, tenant)
    IN  IF sub = "" \/ sub = None
        THEN [returns |-> FALSE, s3 |-> st.s3, local |-> st.local]
        ELSE IF st.s3_configured /\ s3_ok
        THEN [returns |-> TRUE,
              s3 |-> [st.s3 EXCEPT ![path] = StoredObject(cleaned)],
              local |-> st.local]
        ELSE IF local_ok
        THEN [returns |-> TRUE,
              s3 |-> st.s3,
              local |-> [st.local EXCEPT ![path] = StoredObject(cleaned)]]
        ELSE [returns |-> FALSE, s3 |-> st.s3, local |-> st.local]

\* app.py:766-790 on the stores st, every object present being readable
_load_budgets_for_user(sub, tenant, st) ==
    LET path == BudgetsPath(st.tenanted, sub, tenant)
        obj  == IF st.s3_configured THEN st.s3[path] ELSE st.local[path]
    IN  IF sub = "" \/ sub = None THEN <<>>
        ELSE IF ~obj.present THEN <<>>
        ELSE IF ComprehensionRaises(obj.json) THEN <<>>
        ELSE LoadBudgets(obj.json)

(***************************************************************************)
(* cognito_optional_user                       backend/utils/auth.py:21-106 *)
(***************************************************************************)
\* What the dependency gives: an HTTPException 401, None, the unverified
\* anonymous dict, or the claims of the token
Raise401            == [raises |-> TRUE,  user |-> "none"]
ReturnNone          == [raises |-> FALSE, user |-> "none"]
AnonymousUnverified == [raises |-> FALSE, user |-> "anonymous-unverified"]
ReturnClaims        == [raises |-> FALSE, user |-> "claims"]

\* auth.py:21-42: the key set, "cached" | "fetched" | "none"; the cache is
\* used while present and not expired, else the URL is fetched
_get_jwks(url_set, cached, fetch_ok) ==
    IF ~url_set THEN "none"
    ELSE IF cached THEN "cached"
    ELSE IF fetch_ok THEN "fetched"
    ELSE "none"

\* The outcome for a token that fails a check when every failure is let through
RejectNever(require_auth) == IF require_auth THEN Raise401 ELSE AnonymousUnverified

\* auth.py:84, 90, 95, 97, 100-101: a failed check raises HTTPException 401,
\* which the handler re-raises whatever REQUIRE_AUTH is
Reject(require_auth) == Raise401

\* auth.py:44-106 for the configuration c and the Authorization header t
cognito_optional_user(c, t, cached, fetch_ok) ==
    IF ~c.jwks_url_set
    THEN IF c.require_auth THEN Raise401 ELSE ReturnNone
    ELSE IF ~t.bearer
    THEN IF c.require_auth THEN Raise401 ELSE ReturnNone
    ELSE IF ~c.jose_installed
    THEN IF c.require_auth THEN Raise401 ELSE AnonymousUnverified
    ELSE IF ~t.wellformed
    THEN IF c.require_auth THEN Raise401 ELSE AnonymousUnverified
    ELSE IF _get_jwks(c.jwks_url_set, cached, fetch_ok) = "none"
    THEN IF c.require_auth THEN Raise401 ELSE AnonymousUnverified
    ELSE IF ~t.kid_known THEN Reject(c.require_auth)
    ELSE IF ~t.sig_ok THEN Reject(c.require_auth)
    ELSE IF t.exp = "past" THEN Reject(c.require_auth)
    ELSE IF c.audience_set /\ ~t.aud_ok THEN Reject(c.require_auth)
    ELSE ReturnClaims

(***************************************************************************)
(* get_ai_json                        backend/utils/bedrock_client.py:99-180 *)
(***************************************************************************)
\* The texts the model endpoint answers with
ModelTexts == {"actions_object", "plain_object", "raw_object", "array", "null", "non_json"}

\* A parsed value: a dict (with or without the keys "actions" and "_raw"),
\* None, or another JSON value
JsValue(kind, actions, raw) == [kind |-> kind, actions |-> actions, raw |-> raw]
PyNone == JsValue("None", FALSE, FALSE)

\* bedrock_client.py:157-161: json.loads(out), or {"_raw": out} when it raises
TryParse(text) ==
    CASE text = "actions_object" -> JsValue("dict", TRUE, FALSE)
      [] text = "plain_object"   -> JsValue("dict", FALSE, FALSE)
      [] text = "raw_object"     -> JsValue("dict", FALSE, TRUE)
      [] text = "array"          -> JsValue("other", FALSE, FALSE)
      [] text = "null"           -> PyNone
      [] OTHER                   -> JsValue("dict", FALSE, TRUE)

\* bedrock_client.py:165: isinstance(js, dict) and ("actions" in js or "_raw" not in js)
FirstAnswerKept(js) == js.kind = "dict" /\ (js.actions \/ ~js.raw)

\* bedrock_client.py:133: the source tag of an invocation
SourceTag(use_json) == IF use_json THEN "bedrock-json" ELSE "bedrock"

\* The call has returned (parsed, tag), with the answer of an invocation or
\* from an except clause
Returned(c, js, tag, answered) ==
    [c EXCEPT !.pc = "done", !.phase = "none", !.parsed = js, !.tag = tag,
              !.answered = answered]

\* A _try starts: get_ai_recommendation creates its client
StartTry(c, stage, use_json) ==
    [c EXCEPT !.pc = stage, !.phase = "client", !.use_json = use_json,
              !.tries = @ + 1,
              !.tries_after_error = IF c.erred THEN @ + 1 ELSE @]

\* bedrock_client.py:168-180: an exception of kind exc leaves a _try
OnException(c, exc) ==
    LET e == [c EXCEPT !.erred = TRUE]
    IN  IF c.pc = "retry" THEN Returned(e, PyNone, "bedrock-error", FALSE)
        ELSE IF exc = "unavailable" THEN Returned(e, PyNone, "bedrock-unavailable", FALSE)
        ELSE IF c.retries > 0 THEN StartTry(e, "retry", FALSE)
        ELSE Returned(e, PyNone, "bedrock-error", FALSE)

\* bedrock_client.py:164-167, 175: a _try returns (js, src)
OnAnswer(c, js, src) ==
    IF c.pc = "first" /\ ~FirstAnswerKept(js)
    THEN StartTry(c, "second", FALSE)
    ELSE Returned(c, js, src, TRUE)

(***************************************************************************)
(* _persist_action_and_history       backend/routers/actions_routes.py:43-78 *)
(***************************************************************************)
\* The targets of an action: a list, or None
TargetList(items) == [given |-> TRUE, items |-> items]
NoTargets == [given |-> FALSE, items |-> <<>>]

\* ", ".join(targets) for the target lists of the model
JoinTargets(targets) ==
    CASE targets = <<>>            -> ""
      [] targets = <<"EC2">>       -> "EC2"
      [] targets = <<"EC2", "S3">> -> "EC2, S3"

\* actions_routes.py:46: action.user or x_user_email or "anonymous@demo.local"
ActionUser(action, x_user_email) ==
    IF action.user # None /\ action.user # "" THEN action.user
    ELSE IF x_user_email # None /\ x_user_email # "" THEN x_user_email
    ELSE "anonymous@demo.local"

\* actions_routes.py:47: est_impact_usd unless it is None, else estImpact
EstImpact(action) ==
    IF action.est_impact_usd # JsonNull THEN action.est_impact_usd ELSE action.estImpact

\* actions_routes.py:49-55: the ActionLog row, its id given at the commit
ActionLog(action, x_user_email) ==
    [user |-> ActionUser(action, x_user_email),
     title |-> action.title,
     targets |-> JoinTargets(action.targets.items),
     est_impact |-> EstImpact(action),
     source |-> IF action.source = "" THEN "finops-agent" ELSE action.source]

\* actions_routes.py:62-65: the HistoryEvent row; the message is
\* "Executed: <title>" followed, when there are targets, by the joined targets
HistoryEvent(action, x_user_email) ==
    [user |-> ActionUser(action, x_user_email),
     kind |-> "action_executed",
     message |-> <<"Executed: ", action.title,
                   IF action.targets.items = <<>> THEN ""
                   ELSE JoinTargets(action.targets.items)>>,
     key |-> None]

\* Session.add: the row is pending in the session
SessionAdd(d, table, row) ==
    IF table = "action_logs"
    THEN [d EXCEPT !.pending_actions = Append(@, row)]
    ELSE [d EXCEPT !.pending_history = Append(@, row)]

\* A commit that leaves the pending rows in the session
CommitDeferred(d) == d

\* Session.commit: the pending rows are stored, a new action row getting the
\* next id of the table
SessionCommit(d) ==
    [d EXCEPT
        !.action_logs = @ \o [i \in 1..Len(d.pending_actions) |->
                                [id |-> Len(d.action_logs) + i, row |-> d.pending_actions[i]]],
        !.history_events = @ \o d.pending_history,
        !.pending_actions = <<>>,
        !.pending_history = <<>>]

\* Session.rollback, and the close of get_db: the pending rows are dropped
SessionRollback(d) == [d EXCEPT !.pending_actions = <<>>, !.pending_history = <<>>]

\* The response of a request that raised: FastAPI answers 500
ServerError == [status |-> 500, ok |-> FALSE, actionId |-> 0]

\* actions_routes.py:43-78 on the database d; fails names the operation
\* that raises: "none", "action_commit", "history_add" or "history_commit"
_persist_action_and_history(action, d, x_user_email, fails) ==
    LET d1 == SessionAdd(d, "action_logs", ActionLog(action, x_user_email))
        d2 == SessionCommit(d1)
        id == Len(d.action_logs) + 1
        d3 == IF fails = "history_add" THEN d2
              ELSE SessionAdd(d2, "history_events", HistoryEvent(action, x_user_email))
        d4 == IF fails = "none" THEN SessionCommit(d3) ELSE SessionRollback(d3)
    IN  IF fails = "action_commit"
        THEN [response |-> ServerError, db |-> SessionRollback(d1),
              at_history |-> d.action_logs, history_tried |-> FALSE]
        ELSE [response |-> [status |-> 200, ok |-> TRUE, actionId |-> id],
              db |-> SessionRollback(d4),
              at_history |-> d2.action_logs, history_tried |-> TRUE]

(***************************************************************************)
(* The CSV texts of the model                                              *)
(***************************************************************************)
BillingHeader   == {"client", "revenue", "cost", "licenses_used", "licenses_purchased"}
NamedHeader     == {"client", "name", "revenue", "cost"}
MixedCaseHeader == {"Client", "Revenue", "COST"}
CostOnlyHeader  == {"Service", "UsageType", "Cost"}
LowerCostHeader == {"client", "cost"}

Headers == {BillingHeader, NamedHeader, MixedCaseHeader, CostOnlyHeader, LowerCostHeader}

BillingRow(c, rev, cst, u, p) ==
    ("client" :> c) @@ ("revenue" :> rev) @@ ("cost" :> cst)
        @@ ("licenses_used" :> u) @@ ("licenses_purchased" :> p)

NamedRow(c, n, rev, cst) ==
    ("client" :> c) @@ ("name" :> n) @@ ("revenue" :> rev) @@ ("cost" :> cst)

MixedCaseRow(c, rev, cst) ==
    ("Client" :> c) @@ ("Revenue" :> rev) @@ ("COST" :> cst)

CostOnlyRow(svc, ut, cst) ==
    ("Service" :> svc) @@ ("UsageType" :> ut) @@ ("Cost" :> cst)

LowerCostRow(c, cst) == ("client" :> c) @@ ("cost" :> cst)

BillingRows ==
    { BillingRow("A", "100", "80", "5", "10"),
      BillingRow("B", "50", "80", "", ""),
      BillingRow("A", "100", "80", "1749", "2500"),
      BillingRow("B", "100", "50", "abc", "10"),
      BillingRow("B", "100", "50", "5", "abc"),
      BillingRow("A", "0.006", "0.002", "5", "0"),
      BillingRow("C", "2", "1.25", "199", "200"),
      BillingRow("A", "abc", "80", "10", "10"),
      BillingRow("", "100", "", "0", "10"),
      BillingRow(" ", "15", "10", "5", "5"),
      BillingRow("A", "50", "80", "5", "10"),
      BillingRow("B", "100", "80", "15", "10"),
      BillingRow("A", "100", "80", "-3", "10"),
      BillingRow("B", "-3", "0", "0", "0"),
      BillingRow("C", "100", "100", "10", "15"),
      BillingRow("B", "10", "5", "5", "-3"),
      BillingRow("A", "100", None, None, None) }

NamedRows ==
    { NamedRow("A", "B", "100", "80"),
      NamedRow("", "B", "50", "80"),
      NamedRow("", "", "100", "50"),
      NamedRow(None, " ", "10", "5"),
      NamedRow("", None, "0.006", "0.002") }

MixedCaseRows ==
    { MixedCaseRow("A", "100", "80"),
      MixedCaseRow("B", "50", "80"),
      MixedCaseRow("A", "0.006", "0.002") }

CostOnlyRows ==
    { CostOnlyRow("EC2", "", "10"),
      CostOnlyRow("EC2", "BoxUsage", "5"),
      CostOnlyRow("S3", "", "15"),
      CostOnlyRow("", "BoxUsage", "5"),
      CostOnlyRow("", "", "2"),
      CostOnlyRow("Unknown", "", "10"),
      CostOnlyRow("S3", "", "abc"),
      CostOnlyRow("EC2", "", "0.006"),
      CostOnlyRow("", "BoxUsage", "0.002"),
      CostOnlyRow("S3", "", "0.006"),
      CostOnlyRow("S3", None, None),
      CostOnlyRow("", "", "-3") }

LowerCostRows ==
    { LowerCostRow("A", "80"),
      LowerCostRow("B", "50") }

\* The data rows a CSV with header row h can hold
RowsFor(h) ==
    CASE h = BillingHeader   -> BillingRows
      [] h = NamedHeader     -> NamedRows
      [] h = MixedCaseHeader -> MixedCaseRows
      [] h = CostOnlyHeader  -> CostOnlyRows
      [] h = LowerCostHeader -> LowerCostRows

\* The client names budgets are submitted for in the budgets-only runs
BudgetClients == {"A", "B"}

\* The JSON values a budgets body or a stored budgets object can hold
JsonValues ==
    { JsonNumber(100000), JsonNumber(0), JsonNumber(-3000), JsonString("50"),
      JsonString("abc"), JsonString("nan"), JsonNull, JsonTrue, JsonList,
      JsonNaN, JsonInfinity }

\* Every body of POST /budgets over BudgetClients
Payloads == UNION {[S -> JsonValues] : S \in SUBSET BudgetClients}

\* The budgets objects found in storage before any save: none, and objects
\* written by hand
StoredObjects ==
    { <<>>,
      ("A" :> JsonNumber(50000)) @@ ("B" :> JsonString("abc")),
      ("A" :> JsonNaN) @@ ("B" :> JsonNumber(-3000)),
      ("A" :> JsonString("100")) @@ ("B" :> JsonNull),
      ("A" :> JsonList) @@ ("B" :> JsonInfinity) }

\* The bodies of POST /budgets of the alert runs
AlertPayloads ==
    { ("A" :> JsonNumber(100000)),
      ("A" :> JsonNumber(50000)),
      ("A" :> JsonNumber(80000)),
      ("A" :> JsonNumber(88900)),
      ("A" :> JsonNumber(85000)) @@ ("B" :> JsonNumber(50000)),
      ("A" :> JsonNumber(0)) @@ ("B" :> JsonNumber(100000)),
      ("A" :> JsonNumber(-3000)) @@ ("B" :> JsonString("abc")),
      ("Ghost" :> JsonNumber(100000)),
      ("EC2" :> JsonNumber(10000)) @@ ("S3" :> JsonNumber(2000)) }

\* The industry query parameters of GET /benchmarks
IndustryTags == {"msp", "MSP", "SaaS", "IT", " IT ", "General", "general", "", " ", "FinTech"}

\* The texts the billing object and the billing file can hold: empty, a
\* header row only, and files with data rows
CsvTexts ==
    { CsvText({}, <<>>),
      CsvText(BillingHeader, <<>>),
      CsvText(BillingHeader, <<BillingRow("A", "100", "80", "5", "10"),
                               BillingRow("B", "50", "80", "", "")>>),
      CsvText(CostOnlyHeader, <<CostOnlyRow("EC2", "", "10")>>) }

\* The source query parameters of GET /analyze
SourceParams == {None, "s3", "local", "auto"}

\* The state of the billing sources before a request
FetchStates ==
    [s3_configured : BOOLEAN, s3_readable : BOOLEAN, s3_text : CsvTexts,
     local_exists : BOOLEAN, local_text : CsvTexts,
     source : {None}, status : {0}, origin : {"none"}]

\* The actions executed
ActionPayloads ==
    { [title |-> "Rightsize", targets |-> TargetList(<<"EC2", "S3">>),
       est_impact_usd |-> JsonNumber(100000), estImpact |-> JsonNumber(50000),
       source |-> "finops-agent", user |-> "ops@msp.example"],
      [title |-> "Rightsize", targets |-> NoTargets,
       est_impact_usd |-> JsonNull, estImpact |-> JsonNumber(50000),
       source |-> "", user |-> None],
      [title |-> "Reclaim licenses", targets |-> TargetList(<<"EC2">>),
       est_impact_usd |-> JsonNull, estImpact |-> JsonNull,
       source |-> "ui", user |-> ""] }

\* The X-User-Email headers
UserEmails == {None, "admin@msp.example"}

\* The operation of the database that fails during a request
DbFailures == {"none", "action_commit", "history_add", "history_commit"}

\* The number of executed actions of a run
MaxExecutions == 2

\* The retries arguments of get_ai_json
Retries == {0, 1}

\* What creating the client does: it succeeds, raises UnknownServiceError or
\* NoRegionError, or raises another exception
ClientOutcomes == {"ok", "unavailable", "error"}

\* What an invocation does: it raises, the endpoint rejects response_format,
\* or it answers with a text
InvokeOutcomes == {"error", "reject"} \cup ModelTexts

\* The Authorization headers: none, or a Bearer token that is malformed or
\* has a known or unknown kid, a good or bad signature, no exp claim or one
\* in the future or the past, and the configured audience or another
AuthHeaders ==
    [bearer : BOOLEAN, wellformed : BOOLEAN, kid_known : BOOLEAN, sig_ok : BOOLEAN,
     exp : {"absent", "future", "past"}, aud_ok : BOOLEAN]

NoHeader ==
    [bearer |-> FALSE, wellformed |-> FALSE, kid_known |-> FALSE, sig_ok |-> FALSE,
     exp |-> "absent", aud_ok |-> FALSE]

\* The configurations: COGNITO_JWKS_URL, REQUIRE_AUTH, COGNITO_AUDIENCE,
\* python-jose importable
AuthConfigs ==
    [jwks_url_set : BOOLEAN, require_auth : BOOLEAN, audience_set : BOOLEAN,
     jose_installed : BOOLEAN]

AuthStates ==
    [config : AuthConfigs, jwks_cached : {FALSE}, called : {FALSE},
     header : {NoHeader}, outcome : {ReturnNone}]

\* The subs and tenants of the storage runs, and the places of their records
StorageSubs == {"alice", ""}
StorageTenants == {None, "t1"}
StoragePaths == {"", "default", "t1"} \X {"alice", ""}

\* The maps handed to _save_budgets_for_user
StorageBudgets ==
    { ("A" :> JsonNumber(100000)),
      ("A" :> JsonNumber(-3000)) @@ ("B" :> JsonString("abc")) }

\* No call yet
NoStorageCall ==
    [op |-> "none", sub |-> "", tenant |-> None, budgets |-> <<>>,
     s3_ok |-> FALSE, local_ok |-> FALSE, returns |-> FALSE, loaded |-> <<>>]

\* The storage situations: S3_BUCKET set or not, BUDGETS_TENANTED, no record
StorageStates ==
    [s3_configured : BOOLEAN, tenanted : BOOLEAN,
     s3 : {[p \in StoragePaths |-> NoObject]},
     local : {[p \in StoragePaths |-> NoObject]},
     saved : {[p \in StoragePaths |-> NoObject]},
     last : {NoStorageCall}]

\* The credentials of the budgets requests
Credentials ==
    { [kind |-> "none", sub |-> None],
      [kind |-> "invalid", sub |-> None],
      [kind |-> "valid", sub |-> "alice"],
      [kind |-> "valid", sub |-> "bob"],
      [kind |-> "valid", sub |-> None] }

\* The tenant query parameters
TenantParams == {None, "t1", "../t1"}

\* The places a budgets record can be stored at
BudgetsPaths == {"", "default", "t1", "__t1"} \X {"alice", "bob", PUBLIC_BUDGET_SUB}

\* The bodies of POST /budgets of the record runs
RecordPayloads ==
    { ("A" :> JsonNumber(100000)),
      ("A" :> JsonNumber(-3000)) @@ ("B" :> JsonString("abc")) }

\* The number of POST /budgets requests of a run
MaxPosts == 2

\* The configurations: COGNITO_ENABLED, ALLOW_PUBLIC_ACTIONS, BUDGETS_TENANTED
RecordStates ==
    [cognito_enabled : BOOLEAN, allow_public : BOOLEAN, tenanted : BOOLEAN,
     store : {[p \in BudgetsPaths |-> <<>>]}, posts : {<<>>}]

\* The keys requested: objects of two users, a key outside the upload
\* prefix, a key climbing out of the caller's prefix, and a sibling prefix
HistoryKeys ==
    { <<"uploads", "alice", "a.csv">>,
      <<"uploads", "bob", "b.csv">>,
      <<"billing_data.csv">>,
      <<"uploads", "alice", "..", "bob", "b.csv">>,
      <<"uploads", "alice2", "c.csv">> }

\* The callers: verified users, a verified token without sub, and a caller
\* without a verified token
Callers ==
    { [verified |-> TRUE, sub |-> "alice"],
      [verified |-> TRUE, sub |-> "bob"],
      [verified |-> TRUE, sub |-> None],
      [verified |-> FALSE, sub |-> None] }

\* The buckets before a request
HistoryStates ==
    [s3_configured : BOOLEAN,
     objects : {{}, {<<"uploads", "alice", "a.csv">>, <<"uploads", "bob", "b.csv">>,
                     <<"billing_data.csv">>, <<"uploads", "alice2", "c.csv">>}},
     requests : {<<>>}]

\* The number of by-key requests of a run
MaxKeyRequests == 1

\* The keys of the rate limiter: client addresses
LimiterKeys == {"10.0.0.1", "10.0.0.2"}

\* The limits and windows (in seconds) the limiter is configured with
Limits == {1, 2}
Windows == {1, 2}

\* The clock of a rate-limiting run goes from 0 to MaxTime seconds
MaxTime == 3

\* The number of requests of a rate-limiting run
MaxHits == 3

\* The configurations of the limiter: rate_limit of app.py with
\* RATE_LIMIT_ENABLED true or false, and SlidingWindowLimiter
LimiterStates ==
    { l \in [impl : {"rate_limit", "SlidingWindowLimiter"}, enabled : BOOLEAN,
             limit : Limits, window : Windows, now : {0},
             log : {[k \in LimiterKeys |-> <<>>]}, hits : {<<>>}] :
        l.impl = "SlidingWindowLimiter" => l.enabled }

\* The paths requested with GET in the routing runs
RequestPaths == {"/health", "/mockclients", "/api/mockclients", "/api/health", "/nowhere"}

\* The number of requests of a routing run
MaxRequests == 2

\* The responses _rightsizing_simulator is invoked on in the purity runs
SimulatorResponses ==
    { BillingResponse(<<BillingRow("A", "100", "80", "5", "10")>>),
      BillingResponse(<<BillingRow("C", "100", "100", "10", "15")>>),
      BillingResponse(<<BillingRow("A", "100", "80", "5", "10"),
                        BillingRow("B", "50", "80", "", "")>>),
      BillingResponse(<<BillingRow("A", "100", "80", "1749", "2500"),
                        BillingRow("C", "2", "1.25", "199", "200")>>) }

\* The number of invocations of a purity run
MaxCalls == 3

\* recoverable_factor, in tenths: the default 0.8 every caller passes
\* (app.py:652, 711, 1519) and two more values of its range (0, 1]
RecoverableFactors == {5, 8, 10}

(***************************************************************************)
(* State machine                                                           *)
(***************************************************************************)
\* The state of the parts of the application no request has touched yet
CallsIdle   == <<>>
FetchIdle   ==
    [s3_configured |-> FALSE, s3_readable |-> FALSE, s3_text |-> CsvText({}, <<>>),
     local_exists |-> FALSE, local_text |-> CsvText({}, <<>>),
     source |-> None, status |-> 0, origin |-> "none"]
RoutingIdle == [routes |-> <<>>, mock_enabled |-> TRUE, served |-> <<>>]
LimiterIdle ==
    [impl |-> "rate_limit", enabled |-> TRUE, limit |-> 1, window |-> 1, now |-> 0,
     log |-> [k \in LimiterKeys |-> <<>>], hits |-> <<>>]
HistoryIdle == [s3_configured |-> FALSE, objects |-> {}, requests |-> <<>>]
RecordsIdle ==
    [cognito_enabled |-> FALSE, allow_public |-> FALSE, tenanted |-> FALSE,
     store |-> [p \in BudgetsPaths |-> <<>>], posts |-> <<>>]
StorageIdle ==
    [s3_configured |-> FALSE, tenanted |-> FALSE,
     s3 |-> [p \in StoragePaths |-> NoObject],
     local |-> [p \in StoragePaths |-> NoObject],
     saved |-> [p \in StoragePaths |-> NoObject],
     last |-> NoStorageCall]
AuthIdle ==
    [config |-> [jwks_url_set |-> FALSE, require_auth |-> FALSE,
                 audience_set |-> FALSE, jose_installed |-> FALSE],
     jwks_cached |-> FALSE, called |-> FALSE, header |-> NoHeader,
     outcome |-> ReturnNone]
AiCallIdle ==
    [pc |-> "idle", phase |-> "none", retries |-> 0, use_json |-> FALSE,
     invocations |-> 0, tries |-> 0, erred |-> FALSE, tries_after_error |-> 0,
     answered |-> FALSE, parsed |-> PyNone, tag |-> ""]
DbIdle ==
    [action_logs |-> <<>>, history_events |-> <<>>,
     pending_actions |-> <<>>, pending_history |-> <<>>,
     executions |-> 0,
     last |-> [fails |-> "none", response |-> ServerError,
               action_logs |-> <<>>, history_events |-> <<>>,
               at_history |-> <<>>, history_tried |-> FALSE]]

ExtIdle ==
    /\ calls = CallsIdle
    /\ fetch = FetchIdle
    /\ routing = RoutingIdle
    /\ limiter = LimiterIdle
    /\ history = HistoryIdle
    /\ records = RecordsIdle
    /\ storage = StorageIdle
    /\ auth = AuthIdle
    /\ aicall = AiCallIdle
    /\ db = DbIdle

\* The analysis, budgets, alerts and benchmarks before any request
CoreIdle ==
    /\ fieldnames = BillingHeader
    /\ rows = <<>>
    /\ pc = "input"
    /\ status = 0
    /\ has_revenue_cost = FALSE
    /\ insights = <<>>
    /\ ar = NoResponse
    /\ factor = 0
    /\ sims = <<>>
    /\ payload = <<>>
    /\ stored = <<>>
    /\ save_status = 0
    /\ loaded = <<>>
    /\ budget_op = "none"
    /\ alerts = <<>>
    /\ industry = ""
    /\ bench = NoBenchmark

Init ==
    /\ fieldnames \in Headers
    /\ rows = <<>>
    /\ pc = "input"
    /\ status = 0
    /\ has_revenue_cost = FALSE
    /\ insights = <<>>
    /\ ar = NoResponse
    /\ factor = 0
    /\ sims = <<>>
    /\ payload = <<>>
    /\ stored = <<>>
    /\ save_status = 0
    /\ loaded = <<>>
    /\ budget_op = "none"
    /\ alerts = <<>>
    /\ industry = ""
    /\ bench = NoBenchmark
    /\ ExtIdle

\* One more data row in the CSV text (csv.DictReader, app.py:386-390)
AppendRow(r) ==
    /\ pc = "input"
    /\ Len(rows) < MaxRows
    /\ rows' = Append(rows, r)
    /\ UNCHANGED <<fieldnames, pc, status, has_revenue_cost, insights, ar, factor, sims>>
    /\ UNCHANGED <<budgetVars, reportVars, extVars>>

\* _analyze_text, app.py:392-426
AnalyzeText ==
    /\ pc = "input"
    /\ IF NoRows(rows)
       THEN /\ pc' = "failed"
            /\ status' = 400
            /\ UNCHANGED <<has_revenue_cost, insights, ar>>
       ELSE /\ pc' = "analyzed"
            /\ status' = 200
            /\ has_revenue_cost' = HasRevenueCost(fieldnames)
            /\ IF HasRevenueCost(fieldnames)
               THEN /\ insights' = InsightsOf(rows)
                    /\ ar' = BillingResponse(rows)
               ELSE /\ insights' = <<>>
                    /\ ar' = CostOnlyResponse(rows)
    /\ UNCHANGED <<fieldnames, rows, factor, sims>>
    /\ UNCHANGED <<budgetVars, reportVars, extVars>>

\* _rightsizing_simulator(ar, recoverable_factor=f), app.py:652-666
RightsizingSimulator(f) ==
    /\ pc = "analyzed"
    /\ pc' = "simulated"
    /\ factor' = f
    /\ sims' = _rightsizing_simulator(ar, f)
    /\ UNCHANGED <<fieldnames, rows, status, has_revenue_cost, insights, ar>>
    /\ UNCHANGED <<budgetVars, reportVars, extVars>>

Next ==
    \/ \E r \in RowsFor(fieldnames) : AppendRow(r)
    \/ AnalyzeText
    \/ \E f \in RecoverableFactors : RightsizingSimulator(f)

Spec == Init /\ [][Next]_vars

(***************************************************************************)
(* Budgets, alerts and benchmarks                                          *)
(***************************************************************************)
\* POST /budgets, app.py:1162-1184, for a caller the endpoint identifies and
\* a storage that accepts the write: the handler cleans the body, and
\* _save_budgets_for_user (app.py:792-813) cleans it again before writing
SaveBudgets(p) ==
    /\ payload' = p
    /\ budget_op' = "saved"
    /\ IF ComprehensionRaises(p) \/ ComprehensionRaises(CleanBudgets(p))
       THEN /\ save_status' = 500
            /\ UNCHANGED stored
       ELSE /\ save_status' = 200
            /\ stored' = CleanBudgets(CleanBudgets(p))
    /\ UNCHANGED <<loaded, analysisVars, reportVars, extVars>>

\* _load_budgets_for_user, app.py:766-790: {} when reading the object raises
LoadBudgetsForUser ==
    /\ loaded' = IF ComprehensionRaises(stored) THEN <<>> ELSE LoadBudgets(stored)
    /\ budget_op' = "loaded"
    /\ UNCHANGED <<payload, stored, save_status, analysisVars, reportVars, extVars>>

\* The budgets of the caller are loaded and _attach_alerts (app.py:861-868)
\* evaluates them against the analysis
AttachAlerts ==
    /\ pc = "analyzed"
    /\ pc' = "alerted"
    /\ loaded' = (IF ComprehensionRaises(stored) THEN <<>> ELSE LoadBudgets(stored))
    /\ budget_op' = "loaded"
    /\ alerts' = _compute_alerts(ar.client_insights, loaded',
                                 ALERT_WARN_PCT, ALERT_BREACH_PCT)
    /\ UNCHANGED <<fieldnames, rows, status, has_revenue_cost, insights, ar, factor, sims>>
    /\ UNCHANGED <<payload, stored, save_status, industry, bench, extVars>>

\* GET /benchmarks, app.py:1491-1531, on the analysis of the uploaded file
GetBenchmarks(tag) ==
    /\ pc = "analyzed"
    /\ pc' = "benchmarked"
    /\ industry' = tag
    /\ factor' = 8
    /\ sims' = _rightsizing_simulator(ar, 8)
    /\ bench' = BenchmarkOf(ar, tag)
    /\ UNCHANGED <<fieldnames, rows, status, has_revenue_cost, insights, ar>>
    /\ UNCHANGED <<budgetVars, alerts, extVars>>

\* Budgets are saved, a file is analysed and the alerts are attached
NextAlerts ==
    \/ \E r \in RowsFor(fieldnames) : AppendRow(r)
    \/ AnalyzeText
    \/ \E p \in AlertPayloads : pc = "analyzed" /\ SaveBudgets(p)
    \/ AttachAlerts

SpecAlerts == Init /\ [][NextAlerts]_vars

\* A file is analysed and benchmarked
NextBench ==
    \/ \E r \in RowsFor(fieldnames) : AppendRow(r)
    \/ AnalyzeText
    \/ \E tag \in IndustryTags : GetBenchmarks(tag)

SpecBench == Init /\ [][NextBench]_vars

\* The budgets endpoints on every body over BudgetClients and on the stored
\* objects, followed by an analysis with its alerts
InitBudgets ==
    /\ fieldnames = NamedHeader
    /\ rows = <<>>
    /\ pc = "input"
    /\ status = 0
    /\ has_revenue_cost = FALSE
    /\ insights = <<>>
    /\ ar = NoResponse
    /\ factor = 0
    /\ sims = <<>>
    /\ payload = <<>>
    /\ stored \in StoredObjects
    /\ save_status = 0
    /\ loaded = <<>>
    /\ budget_op = "none"
    /\ alerts = <<>>
    /\ industry = ""
    /\ bench = NoBenchmark
    /\ ExtIdle

NextBudgets ==
    \/ \E p \in Payloads : pc = "input" /\ rows = <<>> /\ budget_op = "none" /\ SaveBudgets(p)
    \/ pc = "input" /\ rows = <<>> /\ LoadBudgetsForUser
    \/ \E r \in RowsFor(fieldnames) : AppendRow(r)
    \/ AnalyzeText
    \/ AttachAlerts

SpecBudgets == InitBudgets /\ [][NextBudgets]_vars

(***************************************************************************)
(* Repeated invocations of _rightsizing_simulator                          *)
(***************************************************************************)
\* One invocation, app.py:652-666, after whatever invocations came before:
\* sims holds what the previous invocation returned.  The loop reads the
\* insights and assigns to none of them, so the list is the same afterwards.
InvokeSimulator(resp, f) ==
    LET result == SimulateInto(resp.client_insights, f, FreshOut(sims))
    IN  /\ Len(calls) < MaxCalls
        /\ sims' = result
        /\ factor' = f
        /\ calls' = Append(calls, [given  |-> resp.client_insights,
                                   factor |-> f,
                                   result |-> result,
                                   after  |-> resp.client_insights])
        /\ UNCHANGED <<fieldnames, rows, pc, status, has_revenue_cost, insights, ar>>
        /\ UNCHANGED <<budgetVars, reportVars>>
        /\ UNCHANGED <<fetch, routing, limiter, history, records, storage, auth, aicall, db>>

InitPure == CoreIdle /\ ExtIdle

NextPure == \E resp \in SimulatorResponses, f \in RecoverableFactors : InvokeSimulator(resp, f)

SpecPure == InitPure /\ [][NextPure]_vars

(***************************************************************************)
(* GET /analyze without a key                                              *)
(***************************************************************************)
\* analyze, app.py:1281-1321, for a request without key and without
\* Authorization header (get_user_optional then returns without raising,
\* app.py:275-292): the text is fetched, analysed, and the caller's budgets
\* are attached as alerts
GetAnalyze(source) ==
    LET got == _read_billing_csv_text(EffSource(source), fetch)
        res == _analyze_text(got.text)
        st  == IF got.status # 200 THEN got.status ELSE res.status
    IN  /\ fetch.status = 0
        /\ fetch' = [fetch EXCEPT !.source = source, !.status = st, !.origin = got.origin]
        /\ status' = st
        /\ IF st = 200
           THEN /\ pc' = "alerted"
                /\ fieldnames' = got.text.fieldnames
                /\ rows' = got.text.rows
                /\ has_revenue_cost' = res.has_revenue_cost
                /\ insights' = res.insights
                /\ ar' = res.ar
                /\ loaded' = (IF ComprehensionRaises(stored) THEN <<>> ELSE LoadBudgets(stored))
                /\ budget_op' = "loaded"
                /\ alerts' = _compute_alerts(res.ar.client_insights, loaded',
                                             ALERT_WARN_PCT, ALERT_BREACH_PCT)
           ELSE /\ pc' = "failed"
                /\ UNCHANGED <<fieldnames, rows, has_revenue_cost, insights, ar>>
                /\ UNCHANGED <<loaded, budget_op, alerts>>
        /\ UNCHANGED <<factor, sims, payload, stored, save_status, industry, bench>>
        /\ UNCHANGED <<calls, routing, limiter, history, records, storage, auth, aicall, db>>

InitFetch ==
    /\ CoreIdle
    /\ fetch \in FetchStates
    /\ calls = CallsIdle
    /\ routing = RoutingIdle
    /\ limiter = LimiterIdle
    /\ history = HistoryIdle
    /\ records = RecordsIdle
    /\ storage = StorageIdle
    /\ auth = AuthIdle
    /\ aicall = AiCallIdle
    /\ db = DbIdle

NextFetch == \E source \in SourceParams : GetAnalyze(source)

SpecFetch == InitFetch /\ [][NextFetch]_vars

(***************************************************************************)
(* Start-up and requests of the application                                *)
(***************************************************************************)
\* The import of app.py makes its next registration
RegisterRoute ==
    /\ Len(routing.routes) < Len(Registrations)
    /\ routing' = [routing EXCEPT
            !.routes = Append(@, Registrations[Len(routing.routes) + 1])]
    /\ UNCHANGED <<coreVars, calls, fetch, limiter, history, records, storage, auth, aicall, db>>

\* A GET request to the started application
Request(path) ==
    /\ Len(routing.routes) = Len(Registrations)
    /\ Len(routing.served) < MaxRequests
    /\ routing' = [routing EXCEPT
            !.served = Append(@, [path |-> path] @@
                                 Serve(routing.routes, "GET", path, routing.mock_enabled))]
    /\ UNCHANGED <<coreVars, calls, fetch, limiter, history, records, storage, auth, aicall, db>>

InitRouting ==
    /\ CoreIdle
    /\ routing \in [routes : {<<>>}, mock_enabled : BOOLEAN, served : {<<>>}]
    /\ calls = CallsIdle
    /\ fetch = FetchIdle
    /\ limiter = LimiterIdle
    /\ history = HistoryIdle
    /\ records = RecordsIdle
    /\ storage = StorageIdle
    /\ auth = AuthIdle
    /\ aicall = AiCallIdle
    /\ db = DbIdle

NextRouting ==
    \/ RegisterRoute
    \/ \E path \in RequestPaths : Request(path)

SpecRouting == InitRouting /\ [][NextRouting]_vars

(***************************************************************************)
(* Requests through the rate limiter                                       *)
(***************************************************************************)
\* time.time() moves on
Tick ==
    /\ limiter.now < MaxTime
    /\ limiter' = [limiter EXCEPT !.now = @ + 1]
    /\ UNCHANGED <<coreVars, calls, fetch, routing, history, records, storage, auth, aicall, db>>

\* The limiter after a decision on a request of key k; hits is the history
\* of the requests and their decisions
Decided(k, d) ==
    [limiter EXCEPT
        !.log[k] = d.bucket,
        !.hits = Append(@, [key |-> k, at |-> limiter.now, allowed |-> d.allowed,
                            status |-> d.status, remaining |-> d.remaining])]

\* A request from address ip passes the dependency rate_limit, app.py:231-242
RateLimit(ip) ==
    /\ limiter.impl = "rate_limit"
    /\ Len(limiter.hits) < MaxHits
    /\ limiter' = Decided(ip, rate_limit(limiter.enabled, limiter.log[ip], limiter.now,
                                         limiter.window, limiter.limit))
    /\ UNCHANGED <<coreVars, calls, fetch, routing, history, records, storage, auth, aicall, db>>

\* SlidingWindowLimiter.allow(key), rate_limit.py:16-27
Allow(key) ==
    /\ limiter.impl = "SlidingWindowLimiter"
    /\ Len(limiter.hits) < MaxHits
    /\ limiter' = Decided(key, allow(limiter.log[key], limiter.now,
                                     limiter.window, limiter.limit))
    /\ UNCHANGED <<coreVars, calls, fetch, routing, history, records, storage, auth, aicall, db>>

InitLimiter ==
    /\ CoreIdle
    /\ limiter \in LimiterStates
    /\ calls = CallsIdle
    /\ fetch = FetchIdle
    /\ routing = RoutingIdle
    /\ history = HistoryIdle
    /\ records = RecordsIdle
    /\ storage = StorageIdle
    /\ auth = AuthIdle
    /\ aicall = AiCallIdle
    /\ db = DbIdle

NextLimiter ==
    \/ Tick
    \/ \E ip \in LimiterKeys : RateLimit(ip)
    \/ \E key \in LimiterKeys : Allow(key)

SpecLimiter == InitLimiter /\ [][NextLimiter]_vars

(***************************************************************************)
(* Requests with a caller-supplied history key                             *)
(***************************************************************************)
\* Caller c requests endpoint e with the key; a request answered 200 has read,
\* analysed, presigned or deleted the object
ByKeyRequest(e, key, c) ==
    LET st == ByKeyStatus(e, key, c, history)
    IN  /\ Len(history.requests) < MaxKeyRequests
        /\ history' = [history EXCEPT
                !.objects = IF e = "DELETE /history" /\ st = 200 THEN @ \ {key} ELSE @,
                !.requests = Append(@, [endpoint |-> e, key |-> key, caller |-> c,
                                        status |-> st])]
        /\ UNCHANGED <<coreVars, calls, fetch, routing, limiter, records, storage, auth, aicall, db>>

InitHistory ==
    /\ CoreIdle
    /\ history \in HistoryStates
    /\ calls = CallsIdle
    /\ fetch = FetchIdle
    /\ routing = RoutingIdle
    /\ limiter = LimiterIdle
    /\ records = RecordsIdle
    /\ storage = StorageIdle
    /\ auth = AuthIdle
    /\ aicall = AiCallIdle
    /\ db = DbIdle

NextHistory ==
    \E e \in UncheckedEndpoints \cup CheckedEndpoints, key \in HistoryKeys, c \in Callers :
        ByKeyRequest(e, key, c)

SpecHistory == InitHistory /\ [][NextHistory]_vars

(***************************************************************************)
(* POST /budgets of several callers                                        *)
(***************************************************************************)
\* save_budgets, app.py:1162-1184, with a storage that accepts the write
PostBudgets(cred, tenant, p) ==
    LET u    == get_user_optional(records.cognito_enabled, records.allow_public, cred)
        sub  == BudgetSub(u.user)
        path == BudgetsPath(records.tenanted, sub, tenant)
        st   == IF u.raises THEN 401
                ELSE IF ~Authorised(records.cognito_enabled, records.allow_public, u.user)
                THEN 401
                ELSE IF ComprehensionRaises(p) \/ ComprehensionRaises(CleanBudgets(p))
                THEN 500
                ELSE 200
    IN  /\ Len(records.posts) < MaxPosts
        /\ records' = [records EXCEPT
                !.store = IF st = 200
                          THEN [@ EXCEPT ![path] = CleanBudgets(CleanBudgets(p))]
                          ELSE @,
                !.posts = Append(@, [cred |-> cred, tenant |-> tenant, payload |-> p,
                                     status |-> st, before |-> records.store])]
        /\ UNCHANGED <<coreVars, calls, fetch, routing, limiter, history, storage, auth, aicall, db>>

InitRecords ==
    /\ CoreIdle
    /\ records \in RecordStates
    /\ calls = CallsIdle
    /\ fetch = FetchIdle
    /\ routing = RoutingIdle
    /\ limiter = LimiterIdle
    /\ history = HistoryIdle
    /\ storage = StorageIdle
    /\ auth = AuthIdle
    /\ aicall = AiCallIdle
    /\ db = DbIdle

NextRecords ==
    \E cred \in Credentials, tenant \in TenantParams, p \in RecordPayloads :
        PostBudgets(cred, tenant, p)

SpecRecords == InitRecords /\ [][NextRecords]_vars

(***************************************************************************)
(* Saving and loading the budgets of a user                                *)
(***************************************************************************)
\* A call of _save_budgets_for_user; saved keeps, for each record, the map
\* of the last call that returned True
SaveBudgetsForUser(sub, tenant, budgets, s3_ok, local_ok) ==
    LET r    == _save_budgets_for_user(sub, budgets, tenant, storage, s3_ok, local_ok)
        path == BudgetsPath(storage.tenanted, sub, tenant)
    IN  /\ storage' = [storage EXCEPT
                !.s3 = r.s3,
                !.local = r.local,
                !.saved = IF r.returns
                          THEN [@ EXCEPT ![path] = StoredObject(CleanBudgets(budgets))]
                          ELSE @,
                !.last = [op |-> "save", sub |-> sub, tenant |-> tenant,
                          budgets |-> budgets, s3_ok |-> s3_ok, local_ok |-> local_ok,
                          returns |-> r.returns, loaded |-> <<>>]]
        /\ UNCHANGED <<coreVars, calls, fetch, routing, limiter, history, records, auth, aicall, db>>

\* A call of _load_budgets_for_user
LoadBudgetsFromStore(sub, tenant) ==
    /\ storage' = [storage EXCEPT
            !.last = [op |-> "load", sub |-> sub, tenant |-> tenant,
                      budgets |-> <<>>, s3_ok |-> FALSE, local_ok |-> FALSE,
                      returns |-> FALSE,
                      loaded |-> _load_budgets_for_user(sub, tenant, storage)]]
    /\ UNCHANGED <<coreVars, calls, fetch, routing, limiter, history, records, auth, aicall, db>>

InitStorage ==
    /\ CoreIdle
    /\ storage \in StorageStates
    /\ calls = CallsIdle
    /\ fetch = FetchIdle
    /\ routing = RoutingIdle
    /\ limiter = LimiterIdle
    /\ history = HistoryIdle
    /\ records = RecordsIdle
    /\ auth = AuthIdle
    /\ aicall = AiCallIdle
    /\ db = DbIdle

NextStorage ==
    \/ \E sub \in StorageSubs, tenant \in StorageTenants, budgets \in StorageBudgets,
          s3_ok \in BOOLEAN, local_ok \in BOOLEAN :
            SaveBudgetsForUser(sub, tenant, budgets, s3_ok, local_ok)
    \/ \E sub \in StorageSubs, tenant \in StorageTenants :
            LoadBudgetsFromStore(sub, tenant)

SpecStorage == InitStorage /\ [][NextStorage]_vars

(***************************************************************************)
(* Requests through cognito_optional_user                                  *)
(***************************************************************************)
\* A request with the Authorization header t; the key set is fetched, and
\* cached for an hour, when the verification reaches _get_jwks
CognitoOptionalUser(t, fetch_ok) ==
    LET c == auth.config
        reaches_jwks == c.jwks_url_set /\ t.bearer /\ c.jose_installed /\ t.wellformed
    IN  /\ auth' = [auth EXCEPT
                !.called = TRUE,
                !.header = t,
                !.outcome = cognito_optional_user(c, t, auth.jwks_cached, fetch_ok),
                !.jwks_cached = IF reaches_jwks /\ ~auth.jwks_cached THEN fetch_ok ELSE @]
        /\ UNCHANGED <<coreVars, calls, fetch, routing, limiter, history, records, storage, aicall, db>>

\* auth.py:26: the hour of the cached key set is over
JwksExpires ==
    /\ auth.jwks_cached
    /\ auth' = [auth EXCEPT !.jwks_cached = FALSE]
    /\ UNCHANGED <<coreVars, calls, fetch, routing, limiter, history, records, storage, aicall, db>>

InitAuth ==
    /\ CoreIdle
    /\ auth \in AuthStates
    /\ calls = CallsIdle
    /\ fetch = FetchIdle
    /\ routing = RoutingIdle
    /\ limiter = LimiterIdle
    /\ history = HistoryIdle
    /\ records = RecordsIdle
    /\ storage = StorageIdle
    /\ aicall = AiCallIdle
    /\ db = DbIdle

NextAuth ==
    \/ \E t \in AuthHeaders, fetch_ok \in BOOLEAN : CognitoOptionalUser(t, fetch_ok)
    \/ JwksExpires

SpecAuth == InitAuth /\ [][NextAuth]_vars

(***************************************************************************)
(* A call of get_ai_json against the model endpoint                        *)
(***************************************************************************)
\* bedrock_client.py:146, 163-164: the call starts with _try(True)
GetAiJson(retries) ==
    /\ aicall.pc \in {"idle", "done"}
    /\ aicall' = StartTry([AiCallIdle EXCEPT !.retries = retries], "first", TRUE)
    /\ UNCHANGED <<coreVars, calls, fetch, routing, limiter, history, records, storage, auth, db>>

\* bedrock_client.py:109-114: _bedrock_client() of the running _try
BedrockClient(outcome) ==
    /\ aicall.phase = "client"
    /\ aicall' = IF outcome = "ok" THEN [aicall EXCEPT !.phase = "invoke"]
                 ELSE OnException(aicall, outcome)
    /\ UNCHANGED <<coreVars, calls, fetch, routing, limiter, history, records, storage, auth, db>>

\* bedrock_client.py:121-143: _invoke(json_mode), and _invoke(False) after a
\* rejection of response_format by the first one
InvokeModel(outcome) ==
    /\ aicall.phase \in {"invoke", "reinvoke"}
    /\ LET c == [aicall EXCEPT !.invocations = @ + 1]
       IN  aicall' =
             IF outcome \in ModelTexts
             THEN OnAnswer(c, TryParse(outcome), SourceTag(c.use_json))
             ELSE IF outcome = "reject" /\ c.phase = "invoke"
             THEN [c EXCEPT !.phase = "reinvoke", !.use_json = FALSE]
             ELSE OnException(c, "error")
    /\ UNCHANGED <<coreVars, calls, fetch, routing, limiter, history, records, storage, auth, db>>

InitAiCall == CoreIdle /\ ExtIdle

NextAiCall ==
    \/ \E retries \in Retries : GetAiJson(retries)
    \/ \E outcome \in ClientOutcomes : BedrockClient(outcome)
    \/ \E outcome \in InvokeOutcomes : InvokeModel(outcome)

SpecAiCall == InitAiCall /\ [][NextAiCall]_vars

(***************************************************************************)
(* Executing actions through the actions router                            *)
(***************************************************************************)
\* execute_action and execute_action_compat, actions_routes.py:82-89 and
\* 116-123, with the session get_db opens and closes; last keeps the tables
\* as they were before the request
ExecuteAction(action, x_user_email, fails) ==
    LET r == _persist_action_and_history(action, db, x_user_email, fails)
    IN  /\ db.executions < MaxExecutions
        /\ db' = [r.db EXCEPT
                !.executions = @ + 1,
                !.last = [fails |-> fails, response |-> r.response,
                          action_logs |-> db.action_logs,
                          history_events |-> db.history_events,
                          at_history |-> r.at_history,
                          history_tried |-> r.history_tried]]
        /\ UNCHANGED <<coreVars, calls, fetch, routing, limiter, history, records, storage, auth, aicall>>

InitDb == CoreIdle /\ ExtIdle

NextDb ==
    \E action \in ActionPayloads, x_user_email \in UserEmails, fails \in DbFailures :
        ExecuteAction(action, x_user_email, fails)

SpecDb == InitDb /\ [][NextDb]_vars

(***************************************************************************)
(* Vocabulary of the properties                                            *)
(***************************************************************************)
\* The analysis has completed
Analyzed == pc \in {"analyzed", "simulated", "alerted", "benchmarked"}

\* The analysis has completed on the billing-schema path
BillingAnalyzed == Analyzed /\ has_revenue_cost

\* The analysis has completed on the cost-only fallback path
CostOnlyAnalyzed == Analyzed /\ ~has_revenue_cost

\* A cell that is a numeral
IsNumeral(v) == v \in DOMAIN FloatValue

\* A cell that is missing or empty
IsBlank(v) == v = None \/ v = ""

\* The number a single cell stands for when each field is coerced on its
\* own: its value when it is a numeral, 0 when missing, empty or unparseable
NumberOf(v) == IF IsNumeral(v) THEN FloatValue[v] ELSE 0

\* max(0, (purchased - used) / purchased * 100) rounded to 1 decimal, in
\* tenths of a percent; 0 when purchased is not positive
ExpectedWaste(used, purchased) ==
    IF purchased > 0
    THEN RoundHalfEven(Max(0, (purchased - used) * 1000), purchased)
    ELSE 0

\* The elements of a sequence with their multiplicities
BagOf(s) ==
    [x \in {s[i] : i \in DOMAIN s} |-> Cardinality({i \in DOMAIN s : s[i] = x})]

\* An amount in thousandths that has at most 2 decimals
AtMost2Decimals(x) == x % 10 = 0

(***************************************************************************)
(* C1  Every insight of analyze_csv_rows has the health its own reported   *)
(* fields give: "At Risk" iff margin < 0, else "Inefficient" iff the       *)
(* reported license_waste_pct > 30, else "Healthy".                        *)
(* The code decides on the unrounded percentage (analyze.py:49) and        *)
(* reports the rounded one (analyze.py:57): 30.04 is reported as 30.0 with *)
(* health "Inefficient".                                                   *)
(***************************************************************************)
C1_HealthFromReportedFields ==
    BillingAnalyzed =>
        \A i \in DOMAIN ar.client_insights :
            LET c == ar.client_insights[i]
            IN  c.health = IF c.margin < 0 THEN "At Risk"
                           ELSE IF c.license_waste_pct > 300 THEN "Inefficient"
                           ELSE "Healthy"

(***************************************************************************)
(* C2  For every billing-schema row whose license cells are numerals or    *)
(* blank, license_waste_pct is max(0, (purchased - used)/purchased * 100)  *)
(* rounded to 1 decimal when purchased > 0; and it is 0 for every row      *)
(* whose licenses_purchased is 0, whatever licenses_used holds.            *)
(***************************************************************************)
C2_WasteFormula ==
    BillingAnalyzed =>
        \A i \in 1..Len(rows) :
            LET u == Get(rows[i], "licenses_used")
                p == Get(rows[i], "licenses_purchased")
            IN  /\ ((IsNumeral(u) \/ IsBlank(u)) /\ (IsNumeral(p) \/ IsBlank(p)))
                      => insights[i].license_waste_pct
                            = ExpectedWaste(NumberOf(u), NumberOf(p))
                /\ NumberOf(p) = 0 => insights[i].license_waste_pct = 0

\* A row with unused licenses (waste 50.0) next to one with purchased = 0 and
\* used = 5 (waste 0.0)
C2_Witness ==
    /\ BillingAnalyzed
    /\ \E i \in 1..Len(rows) :
        /\ NumberOf(Get(rows[i], "licenses_purchased")) > 0
        /\ insights[i].license_waste_pct = 500
    /\ \E i \in 1..Len(rows) :
        /\ Get(rows[i], "licenses_purchased") = "0"
        /\ NumberOf(Get(rows[i], "licenses_used")) > 0
        /\ insights[i].license_waste_pct = 0

(***************************************************************************)
(* C3  The ClientInsight sequence the analysis returns is sorted           *)
(* non-decreasing by margin.                                               *)
(***************************************************************************)
C3_SortedByMargin ==
    Analyzed =>
        \A i, j \in DOMAIN ar.client_insights :
            i < j => ar.client_insights[i].margin <= ar.client_insights[j].margin

\* Two rows given in descending margin order come back in ascending order
C3_Witness ==
    /\ BillingAnalyzed
    /\ Len(insights) = 2
    /\ insights[1].margin > insights[2].margin
    /\ ar.client_insights[1].margin < ar.client_insights[2].margin

(***************************************************************************)
(* C4  analyze_csv_rows emits exactly one insight per row and never merges *)
(* rows: as many insights as rows, the returned list is a rearrangement of *)
(* the per-row list, and the insight of a row carries that row's client,   *)
(* revenue and cost (and, its license cells being numerals or blank, that  *)
(* row's waste percentage), also when client names repeat.                 *)
(***************************************************************************)
C4_OneInsightPerRow ==
    BillingAnalyzed =>
        /\ Len(ar.client_insights) = Len(rows)
        /\ Len(insights) = Len(rows)
        /\ BagOf(ar.client_insights) = BagOf(insights)
        /\ \A i \in 1..Len(rows) :
            LET r == rows[i]
                u == Get(r, "licenses_used")
                p == Get(r, "licenses_purchased")
            IN  /\ insights[i].revenue = Round2(NumberOf(Get(r, "revenue")))
                /\ insights[i].cost = Round2(NumberOf(Get(r, "cost")))
                /\ insights[i].margin
                     = Round2(NumberOf(Get(r, "revenue")) - NumberOf(Get(r, "cost")))
                /\ (IsNumeral(u) /\ IsNumeral(p))
                      => insights[i].license_waste_pct
                            = ExpectedWaste(NumberOf(u), NumberOf(p))

\* Two rows of the same client with different figures give two insights
C4_Witness ==
    /\ BillingAnalyzed
    /\ Len(rows) = 2
    /\ Get(rows[1], "client") = "A"
    /\ Get(rows[2], "client") = "A"
    /\ Len(ar.client_insights) = 2
    /\ ar.client_insights[1].client = "A"
    /\ ar.client_insights[2].client = "A"
    /\ ar.client_insights[1].revenue # ar.client_insights[2].revenue

(***************************************************************************)
(* C5  Numeric coercion is per field: each of revenue, cost, licenses_used *)
(* and licenses_purchased that is missing or unparseable counts as 0 while *)
(* the other fields of the row keep their parsed values, so every insight  *)
(* is the one computed from the per-field numbers of its row.              *)
(* The code converts both license fields in one try block                  *)
(* (analyze.py:29-34): a failure of either resets both to 0.               *)
(***************************************************************************)
C5_PerFieldCoercion ==
    BillingAnalyzed =>
        \A i \in 1..Len(rows) :
            LET r == rows[i]
            IN  /\ insights[i].revenue = Round2(NumberOf(Get(r, "revenue")))
                /\ insights[i].cost = Round2(NumberOf(Get(r, "cost")))
                /\ insights[i].license_waste_pct
                     = ExpectedWaste(NumberOf(Get(r, "licenses_used")),
                                     NumberOf(Get(r, "licenses_purchased")))

(***************************************************************************)
(* C6  _analyze_text fails with 400 "No rows found in CSV" exactly when    *)
(* the parsed row sequence is empty, and for every non-empty row sequence, *)
(* whatever its headers and cells, it completes with totals and insights.  *)
(***************************************************************************)
C6_OnlyFailureIsNoRows ==
    pc # "input" =>
        /\ status = 400 <=> Len(rows) = 0
        /\ pc = "failed" <=> Len(rows) = 0
        /\ Len(rows) > 0 =>
            /\ status = 200
            /\ Analyzed
            /\ Len(ar.client_insights) >= 1

\* An analysis that completed on rows holding an unparseable and a missing
\* number
C6_Witness ==
    /\ Analyzed
    /\ status = 200
    /\ \E i \in 1..Len(rows) : \E k \in DOMAIN rows[i] :
        k \in {"revenue", "cost", "Cost"} /\ rows[i][k] = "abc"
    /\ \E i \in 1..Len(rows) : \E k \in DOMAIN rows[i] : rows[i][k] = None

(***************************************************************************)
(* C7  On the billing-schema path the totals are the sums over the raw     *)
(* rows of the coerced revenue and cost; for inputs with at most 2         *)
(* decimals they equal the sums of the insights' revenue and cost.         *)
(* C7_TotalsAsClaimed adds the claim's total_profit = total_revenue -      *)
(* total_cost between the reported (each rounded) totals; C7_Totals states *)
(* what holds: total_profit is the rounded difference of the unrounded     *)
(* sums, within 0.01 of total_revenue - total_cost and equal to it for     *)
(* inputs with at most 2 decimals.                                         *)
(***************************************************************************)
RawRevenue == SumSeq([i \in 1..Len(rows) |-> NumberOf(Get(rows[i], "revenue"))])

RawCost == SumSeq([i \in 1..Len(rows) |-> NumberOf(Get(rows[i], "cost"))])

InputsAtMost2Decimals ==
    \A i \in 1..Len(rows) :
        /\ AtMost2Decimals(NumberOf(Get(rows[i], "revenue")))
        /\ AtMost2Decimals(NumberOf(Get(rows[i], "cost")))

TotalsFromRawRows ==
    /\ ar.total_revenue = Round2(RawRevenue)
    /\ ar.total_cost = Round2(RawCost)
    /\ InputsAtMost2Decimals =>
        /\ ar.total_revenue = SumSeq([i \in 1..Len(insights) |-> insights[i].revenue])
        /\ ar.total_cost = SumSeq([i \in 1..Len(insights) |-> insights[i].cost])

C7_TotalsAsClaimed ==
    BillingAnalyzed =>
        /\ TotalsFromRawRows
        /\ ar.total_profit = ar.total_revenue - ar.total_cost

C7_Totals ==
    BillingAnalyzed =>
        /\ TotalsFromRawRows
        /\ ar.total_profit = Round2(RawRevenue - RawCost)
        /\ ar.total_profit - (ar.total_revenue - ar.total_cost) \in {-1, 0, 1}
        /\ InputsAtMost2Decimals => ar.total_profit = ar.total_revenue - ar.total_cost

\* Totals over two rows, of which one has amounts of 3 decimals
C7_Witness ==
    /\ BillingAnalyzed
    /\ Len(rows) = 2
    /\ ~InputsAtMost2Decimals
    /\ ar.total_revenue > 0
    /\ ar.total_cost > 0
    /\ ar.total_profit = Round2(RawRevenue - RawCost)

(***************************************************************************)
(* C8  Schema detection is case-insensitive: a header row with a revenue   *)
(* and a cost column in any letter case is analysed on the billing-schema  *)
(* path, giving one insight per row with that row's revenue and cost and   *)
(* totals equal to the column sums; any other header row takes the         *)
(* cost-only path.                                                         *)
(* The detection lower-cases the headers (app.py:389, 396) but the values  *)
(* are read under the lower-case keys only (app.py:399-400,                *)
(* analyze.py:20-25): under Revenue/COST every value reads as 0.           *)
(***************************************************************************)
\* The cell of row r in the column named k in any letter case
CellAnyCase(r, k) ==
    IF \E h \in DOMAIN r : Lower(h) = k
    THEN r[CHOOSE h \in DOMAIN r : Lower(h) = k]
    ELSE None

C8_CaseInsensitiveSchema ==
    Analyzed =>
        IF \E h1, h2 \in fieldnames : Lower(h1) = "revenue" /\ Lower(h2) = "cost"
        THEN /\ has_revenue_cost
             /\ Len(ar.client_insights) = Len(rows)
             /\ BagOf([i \in 1..Len(ar.client_insights) |->
                         <<ar.client_insights[i].revenue, ar.client_insights[i].cost>>])
                  = BagOf([i \in 1..Len(rows) |->
                         <<Round2(NumberOf(CellAnyCase(rows[i], "revenue"))),
                           Round2(NumberOf(CellAnyCase(rows[i], "cost")))>>])
             /\ ar.total_revenue
                  = Round2(SumSeq([i \in 1..Len(rows) |->
                                      NumberOf(CellAnyCase(rows[i], "revenue"))]))
             /\ ar.total_cost
                  = Round2(SumSeq([i \in 1..Len(rows) |->
                                      NumberOf(CellAnyCase(rows[i], "cost"))]))
        ELSE /\ ~has_revenue_cost
             /\ \A i \in DOMAIN ar.client_insights :
                    ar.client_insights[i].health = "Unknown"

(***************************************************************************)
(* C9  On the cost-only path the rows are grouped by label (Service if     *)
(* non-empty, else UsageType if non-empty, else "Unknown"): exactly one    *)
(* pseudo-client per distinct label, with revenue = cost = the sum of Cost *)
(* over the group (reported rounded to 2 decimals), margin 0, waste 0,     *)
(* health "Unknown"; pseudo-clients come by cost descending; total_revenue *)
(* = total_cost = the sum of the groups' Cost sums, total_profit = 0.      *)
(***************************************************************************)
LabelOf(r) ==
    IF ~IsBlank(Get(r, "Service")) THEN Get(r, "Service")
    ELSE IF ~IsBlank(Get(r, "UsageType")) THEN Get(r, "UsageType")
    ELSE "Unknown"

Labels == {LabelOf(rows[i]) : i \in 1..Len(rows)}

\* The sum of the Cost column over the rows labelled l, in thousandths
GroupCost(l) ==
    SumSeq([i \in 1..Len(rows) |->
        IF LabelOf(rows[i]) = l THEN NumberOf(Get(rows[i], "Cost")) ELSE 0])

\* The sum over the distinct labels of their groups' Cost sums
RECURSIVE SumOfGroups(_)
SumOfGroups(ls) ==
    IF ls = {} THEN 0
    ELSE LET l == CHOOSE x \in ls : TRUE
         IN  GroupCost(l) + SumOfGroups(ls \ {l})

C9_CostOnlyGrouping ==
    CostOnlyAnalyzed =>
        /\ Len(ar.client_insights) = Cardinality(Labels)
        /\ {ar.client_insights[i].client : i \in DOMAIN ar.client_insights} = Labels
        /\ \A i \in DOMAIN ar.client_insights :
            LET c == ar.client_insights[i]
            IN  /\ c.revenue = Round2(GroupCost(c.client))
                /\ c.cost = Round2(GroupCost(c.client))
                /\ c.margin = 0
                /\ c.license_waste_pct = 0
                /\ c.health = "Unknown"
        /\ \A i, j \in DOMAIN ar.client_insights :
            i < j => /\ ar.client_insights[i].cost >= ar.client_insights[j].cost
                     /\ GroupCost(ar.client_insights[i].client)
                          >= GroupCost(ar.client_insights[j].client)
        /\ ar.total_cost = Round2(SumOfGroups(Labels))
        /\ ar.total_revenue = ar.total_cost
        /\ ar.total_profit = 0

\* Two rows of one label summed into one pseudo-client (10 + 5 = 15.00)
C9_Witness ==
    /\ CostOnlyAnalyzed
    /\ Len(rows) = 2
    /\ Get(rows[1], "Service") = "EC2"
    /\ Get(rows[2], "Service") = "EC2"
    /\ Len(ar.client_insights) = 1
    /\ ar.client_insights[1].client = "EC2"
    /\ ar.client_insights[1].cost = 1500
    /\ ar.total_revenue = 1500

(***************************************************************************)
(* C10  Every entry of the Rightsizing Simulator comes from the insight of *)
(* its client (with several insights of one name, the last one with        *)
(* positive cost and waste): savings_usd = cost * (waste/100) * factor and *)
(* projected_cost = max(0, cost - savings), each reported rounded to 2     *)
(* decimals, current_cost = cost; for a factor in (0,1] and waste in       *)
(* [0,100], 0 <= projected_cost <= current_cost.                           *)
(* C10_EntriesAsClaimed adds the claim's savings_usd + projected_cost =    *)
(* current_cost between the reported values; C10_Entries states what       *)
(* holds: the two roundings leave the sum within 0.01 of current_cost.     *)
(***************************************************************************)
\* The insight an entry of client name n is computed from
SourceInsight(n) ==
    LET qualifying == {i \in DOMAIN ar.client_insights :
                          /\ ar.client_insights[i].client = n
                          /\ ar.client_insights[i].cost > 0
                          /\ ar.client_insights[i].license_waste_pct > 0}
    IN  ar.client_insights[CHOOSE i \in qualifying : \A j \in qualifying : j <= i]

\* The entry of client n follows the formulas on its insight's cost and waste
EntryFollowsFormulas(n) ==
    LET c == SourceInsight(n)
        e == sims[n]
        \* cost * (waste/100) * factor in 1/10000 of a cent
        savings == c.cost * c.license_waste_pct * factor
    IN  /\ e.current_cost = c.cost
        /\ e.savings_usd = RoundHalfEven(savings, 10000)
        /\ e.projected_cost = RoundHalfEven(Max(0, c.cost * 10000 - savings), 10000)
        /\ (factor \in 1..10 /\ c.license_waste_pct \in 0..1000) =>
              /\ 0 <= e.projected_cost
              /\ e.projected_cost <= e.current_cost

C10_EntriesAsClaimed ==
    pc = "simulated" =>
        \A n \in DOMAIN sims :
            /\ EntryFollowsFormulas(n)
            /\ (factor \in 1..10 /\ SourceInsight(n).license_waste_pct \in 0..1000) =>
                  sims[n].savings_usd + sims[n].projected_cost = sims[n].current_cost

C10_Entries ==
    pc = "simulated" =>
        \A n \in DOMAIN sims :
            /\ EntryFollowsFormulas(n)
            /\ (factor \in 1..10 /\ SourceInsight(n).license_waste_pct \in 0..1000) =>
                  sims[n].savings_usd + sims[n].projected_cost - sims[n].current_cost
                      \in {-1, 0, 1}

\* The scenario of the specification: cost 80, waste 50, factor 0.8 gives
\* savings 32.00 and projected cost 48.00
C10_Witness ==
    /\ pc = "simulated"
    /\ factor = 8
    /\ "A" \in DOMAIN sims
    /\ SourceInsight("A").cost = 8000
    /\ SourceInsight("A").license_waste_pct = 500
    /\ sims["A"].savings_usd = 3200
    /\ sims["A"].current_cost = 8000
    /\ sims["A"].projected_cost = 4800

(***************************************************************************)
(* C11  The Rightsizing Simulator returns no entry for a client with       *)
(* cost <= 0 or license_waste_pct <= 0: the name of such an insight is     *)
(* absent from the mapping, also when a name appears in several insights.  *)
(* The mapping is keyed by name (app.py:661): C11_NoEntryAsClaimed fails   *)
(* when another insight of the same name has positive cost and waste.      *)
(* C11_NoEntry states what holds: a name is in the mapping exactly when    *)
(* one of its insights has positive cost and positive waste.               *)
(***************************************************************************)
C11_NoEntryAsClaimed ==
    pc = "simulated" =>
        \A i \in DOMAIN ar.client_insights :
            (ar.client_insights[i].cost <= 0
                \/ ar.client_insights[i].license_waste_pct <= 0)
              => ar.client_insights[i].client \notin DOMAIN sims

C11_NoEntry ==
    pc = "simulated" =>
        /\ \A n \in DOMAIN sims :
            \E i \in DOMAIN ar.client_insights :
                /\ ar.client_insights[i].client = n
                /\ ar.client_insights[i].cost > 0
                /\ ar.client_insights[i].license_waste_pct > 0
        /\ \A i \in DOMAIN ar.client_insights :
            LET n == ar.client_insights[i].client
            IN  (\A j \in DOMAIN ar.client_insights :
                    ar.client_insights[j].client = n =>
                        (ar.client_insights[j].cost <= 0
                            \/ ar.client_insights[j].license_waste_pct <= 0))
                  => n \notin DOMAIN sims

\* One client with an entry next to a client with positive cost and no
\* waste, whose name is missing from the mapping
C11_Witness ==
    /\ pc = "simulated"
    /\ Len(ar.client_insights) = 2
    /\ DOMAIN sims # {}
    /\ \E i \in DOMAIN ar.client_insights :
        /\ ar.client_insights[i].cost > 0
        /\ ar.client_insights[i].license_waste_pct = 0
        /\ ar.client_insights[i].client \notin DOMAIN sims

(***************************************************************************)
(* C18  Every insight's license_waste_pct lies within [0, 100].            *)
(* The code clamps at 0 only (analyze.py:41-43): a negative licenses_used  *)
(* gives more than 100.                                                    *)
(***************************************************************************)
C18_WasteWithinPercentRange ==
    Analyzed =>
        \A i \in DOMAIN ar.client_insights :
            /\ ar.client_insights[i].license_waste_pct >= 0
            /\ ar.client_insights[i].license_waste_pct <= 1000

(***************************************************************************)
(* C19  Every insight's revenue and cost are non-negative.                 *)
(* The code passes a negative numeral through (analyze.py:20, 25, 54-55).  *)
(***************************************************************************)
C19_NonNegativeAmounts ==
    BillingAnalyzed =>
        \A i \in DOMAIN ar.client_insights :
            /\ ar.client_insights[i].revenue >= 0
            /\ ar.client_insights[i].cost >= 0

(***************************************************************************)
(* C20  Every insight's client is a non-empty string: the row's client     *)
(* value, else its name value, and "Unknown" when neither is usable        *)
(* (missing, empty or blank).                                              *)
(* The code strips after choosing (analyze.py:17): a blank client is       *)
(* chosen and stripped to the empty string.                                *)
(***************************************************************************)
\* A cell that gives a usable name
UsableName(v) == ~IsBlank(v) /\ Strip(v) # ""

C20_ClientNonEmpty ==
    BillingAnalyzed =>
        \A i \in 1..Len(rows) :
            /\ insights[i].client # ""
            /\ insights[i].client =
                  IF UsableName(Get(rows[i], "client")) THEN Get(rows[i], "client")
                  ELSE IF UsableName(Get(rows[i], "name")) THEN Get(rows[i], "name")
                  ELSE "Unknown"


(***************************************************************************)
(* Vocabulary of the benchmark properties                                  *)
(***************************************************************************)
\* GET /benchmarks has answered
Benchmarked == pc = "benchmarked"

\* The insights with positive cost and positive waste
Qualifying ==
    {i \in DOMAIN ar.client_insights :
        /\ ar.client_insights[i].cost > 0
        /\ ar.client_insights[i].license_waste_pct > 0}

\* The names of the qualifying insights
QualifyingNames == {ar.client_insights[i].client : i \in Qualifying}

\* cost * (waste/100) * 0.8 of insight i, in 1/10000 of a cent
ClaimedSavings(i) ==
    ar.client_insights[i].cost * ar.client_insights[i].license_waste_pct * 8

\* The sum of cost * (waste/100) * 0.8 over the insights of I
RECURSIVE SumClaimedSavings(_)
SumClaimedSavings(I) ==
    IF I = {} THEN 0
    ELSE LET i == CHOOSE x \in I : TRUE
         IN  ClaimedSavings(i) + SumClaimedSavings(I \ {i})

\* The sum, over the names of N, of the savings of the last qualifying
\* insight of the name, each rounded to cents
RECURSIVE SumSavingsByName(_)
SumSavingsByName(N) ==
    IF N = {} THEN 0
    ELSE LET n == CHOOSE x \in N : TRUE
             c == SourceInsight(n)
         IN  RoundHalfEven(c.cost * c.license_waste_pct * 8, 10000)
                + SumSavingsByName(N \ {n})

\* |x|
Abs(x) == IF x < 0 THEN -x ELSE x

(***************************************************************************)
(* C12  potential_savings_usd of the Benchmark Comparator is the sum over  *)
(* every insight with cost > 0 and license_waste_pct > 0 of                *)
(* cost * (waste/100) * 0.8, and 0 when no insight qualifies.              *)
(* C12_PotentialSavingsAsClaimed allows the sum half a cent of rounding    *)
(* per insight and still fails: the simulator's mapping is keyed by client *)
(* name (app.py:661), so of several qualifying insights of one name only   *)
(* the last is summed.  C12_PotentialSavings states what holds: the value  *)
(* is the sum, over the distinct names of the qualifying insights, of the  *)
(* savings of the last qualifying insight of the name, each rounded to     *)
(* cents; it is 0 when no insight qualifies, and it is the claimed sum to  *)
(* within half a cent per insight when the qualifying names are distinct.  *)
(***************************************************************************)
C12_PotentialSavingsAsClaimed ==
    Benchmarked =>
        /\ Abs(bench.potential_savings_usd * 10000 - SumClaimedSavings(Qualifying))
              <= 5000 * Cardinality(Qualifying)
        /\ Qualifying = {} => bench.potential_savings_usd = 0

C12_PotentialSavings ==
    Benchmarked =>
        /\ bench.potential_savings_usd = SumSavingsByName(QualifyingNames)
        /\ Qualifying = {} => bench.potential_savings_usd = 0
        /\ Cardinality(QualifyingNames) = Cardinality(Qualifying) =>
              Abs(bench.potential_savings_usd * 10000 - SumClaimedSavings(Qualifying))
                  <= 5000 * Cardinality(Qualifying)

\* Two clients qualify: A with cost 80 and waste 50 saves 32.00, C with cost
\* 100 and waste 33.3 saves 26.64, and the potential savings are 58.64
C12_Witness ==
    /\ Benchmarked
    /\ QualifyingNames = {"A", "C"}
    /\ Cardinality(Qualifying) = 2
    /\ SourceInsight("A").cost = 8000
    /\ SourceInsight("A").license_waste_pct = 500
    /\ SourceInsight("C").cost = 10000
    /\ SourceInsight("C").license_waste_pct = 333
    /\ bench.potential_savings_usd = 5864

(***************************************************************************)
(* C16  your_waste_pct is the cost-weighted average of waste:              *)
(* sum(cost_i * waste_i) / sum(cost_i) over the insights with cost > 0,    *)
(* and 0.0 when the insight list is empty or every insight has cost <= 0;  *)
(* it lies between the smallest and the largest license_waste_pct of the   *)
(* positive-cost insights.  The average is bench.your_waste, the fraction  *)
(* _weighted_avg_waste returns; the response reports it rounded to one     *)
(* decimal.                                                                *)
(***************************************************************************)
\* The insights with positive cost
PositiveCost == {i \in DOMAIN ar.client_insights : ar.client_insights[i].cost > 0}

\* The sum of cost_i over the insights of I
RECURSIVE SumCost(_)
SumCost(I) ==
    IF I = {} THEN 0
    ELSE LET i == CHOOSE x \in I : TRUE
         IN  ar.client_insights[i].cost + SumCost(I \ {i})

\* The sum of cost_i * waste_i over the insights of I
RECURSIVE SumCostWaste(_)
SumCostWaste(I) ==
    IF I = {} THEN 0
    ELSE LET i == CHOOSE x \in I : TRUE
         IN  ar.client_insights[i].cost * ar.client_insights[i].license_waste_pct
                + SumCostWaste(I \ {i})

C16_WeightedAverage ==
    Benchmarked =>
        LET num == bench.your_waste[1]
            den == bench.your_waste[2]
        IN  /\ den > 0
            /\ IF PositiveCost = {}
               THEN num = 0 /\ bench.your_waste_pct = 0
               ELSE /\ num = SumCostWaste(PositiveCost)
                    /\ den = SumCost(PositiveCost)
                    /\ bench.your_waste_pct
                          = RoundHalfEven(SumCostWaste(PositiveCost), SumCost(PositiveCost))
                    /\ \E i \in PositiveCost :
                          /\ ar.client_insights[i].license_waste_pct * den <= num
                          /\ ar.client_insights[i].license_waste_pct <= bench.your_waste_pct
                    /\ \E i \in PositiveCost :
                          /\ num <= ar.client_insights[i].license_waste_pct * den
                          /\ bench.your_waste_pct <= ar.client_insights[i].license_waste_pct

\* Cost 80 with waste 50 and cost 100 with waste 33.3: the average is
\* (80 * 50 + 100 * 33.3) / 180, reported as 40.7, strictly between the two
C16_Witness ==
    /\ Benchmarked
    /\ Len(ar.client_insights) = 2
    /\ \E i, j \in PositiveCost :
          /\ ar.client_insights[i].cost = 8000
          /\ ar.client_insights[i].license_waste_pct = 500
          /\ ar.client_insights[j].cost = 10000
          /\ ar.client_insights[j].license_waste_pct = 333
    /\ bench.your_waste = <<8000 * 500 + 10000 * 333, 18000>>
    /\ bench.your_waste_pct = 407

(***************************************************************************)
(* C17  The industry baseline lookup is case-insensitive over the table    *)
(* msp=22.0, saas=18.0, it=25.0, general=20.0: a tag equal to a key in any *)
(* letter case (surrounding blanks aside) returns the key's value, and     *)
(* every unrecognized or empty tag returns the default entry, 22.0.        *)
(***************************************************************************)
\* The baseline of each tag of the model, in tenths of a percent
ExpectedBaseline(tag) ==
    CASE tag \in {"msp", "MSP"}         -> 220
      [] tag \in {"SaaS"}               -> 180
      [] tag \in {"IT", " IT "}         -> 250
      [] tag \in {"General", "general"} -> 200
      [] OTHER                          -> 220

C17_BaselineLookup ==
    Benchmarked => bench.industry_avg_waste_pct = ExpectedBaseline(industry)

\* The tag SaaS, in mixed case, is answered with the baseline of saas
C17_Witness ==
    /\ Benchmarked
    /\ industry = "SaaS"
    /\ bench.industry_avg_waste_pct = 180


(***************************************************************************)
(* Vocabulary of the alert and budget properties                           *)
(***************************************************************************)
\* The alerts have been attached to the analysis
Alerted == pc = "alerted"

\* The budget _compute_alerts is given for name n is positive
HasBudget(n) == n \in DOMAIN loaded /\ loaded[n] > 0

\* The insights of client n
InsightsNamed(n) == {i \in DOMAIN ar.client_insights : ar.client_insights[i].client = n}

\* The alerts of client n
AlertsNamed(n) == {k \in DOMAIN alerts : alerts[k].client = n}

\* The insight's client has a positive budget
InsightHasBudget(c) == HasBudget(c.client)

(***************************************************************************)
(* C13  _compute_alerts produces exactly one alert per client that has a   *)
(* budget entry > 0 and no alert for a client absent from the budget map   *)
(* or with a budget <= 0; budgets for names matching no insight produce no *)
(* alert.  The loop runs over the insights (app.py:847), not over the      *)
(* clients: C13_AlertsAsClaimed fails when a client with a budget has two  *)
(* insights.  C13_Alerts states what holds: there is exactly one alert per *)
(* insight whose client has a budget > 0, in the order of the insights,    *)
(* and no alert for any other insight or any other name.                   *)
(***************************************************************************)
C13_AlertsAsClaimed ==
    Alerted =>
        /\ \A k \in DOMAIN alerts :
              HasBudget(alerts[k].client) /\ InsightsNamed(alerts[k].client) # {}
        /\ \A i \in DOMAIN ar.client_insights :
              HasBudget(ar.client_insights[i].client) =>
                  Cardinality(AlertsNamed(ar.client_insights[i].client)) = 1

C13_Alerts ==
    Alerted =>
        LET budgeted == SelectSeq(ar.client_insights, InsightHasBudget)
        IN  /\ Len(alerts) = Len(budgeted)
            /\ \A k \in DOMAIN alerts :
                  /\ alerts[k].client = budgeted[k].client
                  /\ alerts[k].spend = budgeted[k].cost
                  /\ alerts[k].budget = loaded[budgeted[k].client]
            /\ \A k \in DOMAIN alerts :
                  HasBudget(alerts[k].client) /\ InsightsNamed(alerts[k].client) # {}
            /\ \A i \in DOMAIN ar.client_insights :
                  LET n == ar.client_insights[i].client
                  IN  Cardinality(AlertsNamed(n))
                        = IF HasBudget(n) THEN Cardinality(InsightsNamed(n)) ELSE 0

\* Client A has a budget of 0 and client B a budget of 100: the analysis of
\* one row of each carries one alert, for B
C13_Witness ==
    /\ Alerted
    /\ "A" \in DOMAIN loaded /\ loaded["A"] = 0
    /\ "B" \in DOMAIN loaded /\ loaded["B"] = 100000
    /\ Cardinality(InsightsNamed("A")) = 1
    /\ Cardinality(InsightsNamed("B")) = 1
    /\ Len(alerts) = 1
    /\ alerts[1].client = "B"
    /\ alerts[1].budget = 100000

(***************************************************************************)
(* C14  For every alert, pct = spend/budget*100 and the status agrees with *)
(* the reported pct: "breach" iff pct/100 >= breach_threshold, else "warn" *)
(* iff pct/100 >= warn_threshold, else "ok".  The reported pct is in       *)
(* tenths of a percent and the thresholds in tenths, so pct/100 >= t reads *)
(* pct >= 100 * t.  The status is decided on the unrounded ratio           *)
(* (app.py:853-856) and pct is rounded afterwards (app.py:857).            *)
(***************************************************************************)
C14_StatusAgreesWithPct ==
    Alerted =>
        \A k \in DOMAIN alerts :
            LET a == alerts[k]
            IN  /\ a.pct = RoundHalfEven(a.spend * 10 * 1000, a.budget)
                /\ a.status = IF a.pct >= 100 * ALERT_BREACH_PCT THEN "breach"
                              ELSE IF a.pct >= 100 * ALERT_WARN_PCT THEN "warn"
                              ELSE "ok"

(***************************************************************************)
(* C15  Budget entries that fail numeric validation are dropped and never  *)
(* raise: saving keeps exactly the entries whose value converts to a       *)
(* finite number, stores each as max(0, value) and omits all others;       *)
(* loading a stored map returns only its finite numeric entries; a         *)
(* malformed entry never makes the save, the load or the alert evaluation  *)
(* fail.                                                                   *)
(***************************************************************************)
\* float() converts the JSON value to a finite number: numbers, booleans and
\* the strings that spell a number
FiniteNumeric(v) ==
    \/ v.kind \in {"number", "bool"}
    \/ v.kind = "string" /\ IsNumeral(v.text)

\* The number a finite numeric JSON value converts to, in thousandths
NumericValue(v) == IF v.kind = "string" THEN NumberOf(v.text) ELSE v.num

\* The keys of m holding a finite number
FiniteKeys(m) == {k \in DOMAIN m : FiniteNumeric(m[k])}

C15_MalformedBudgetsDropped ==
    /\ budget_op # "none" /\ save_status # 0 =>
          /\ save_status = 200
          /\ DOMAIN stored = FiniteKeys(payload)
          /\ \A k \in DOMAIN stored :
                stored[k] = JsonNumber(Max(0, NumericValue(payload[k])))
    /\ budget_op = "loaded" =>
          /\ DOMAIN loaded = FiniteKeys(stored)
          /\ \A k \in DOMAIN loaded : loaded[k] = NumericValue(stored[k])
    /\ Alerted =>
          /\ Len(alerts) = Cardinality({i \in DOMAIN ar.client_insights :
                              LET n == ar.client_insights[i].client
                              IN  /\ n \in FiniteKeys(stored)
                                  /\ NumericValue(stored[n]) > 0})
          /\ \A k \in DOMAIN alerts :
                /\ alerts[k].client \in FiniteKeys(stored)
                /\ alerts[k].budget = NumericValue(stored[alerts[k].client])
                /\ alerts[k].status \in {"ok", "warn", "breach"}

\* A body with a numeric string for A and a negative number for B is saved
\* as A 50.0 and B 0.0; the analysis of a row of A then carries A's alert
C15_Witness ==
    /\ Alerted
    /\ save_status = 200
    /\ payload = ("A" :> JsonString("50")) @@ ("B" :> JsonNumber(-3000))
    /\ stored = ("A" :> JsonNumber(50000)) @@ ("B" :> JsonNumber(0))
    /\ loaded = ("A" :> 50000) @@ ("B" :> 0)
    /\ Len(alerts) = 1
    /\ alerts[1].client = "A"


Fetched == fetch.status # 0

\* S3 is not configured, or its read fails
S3GivesNothing == ~fetch.s3_configured \/ ~fetch.s3_readable

C23_MockclientsHasClients ==
    \A k \in DOMAIN routing.served :
        routing.served[k].path = "/mockclients" =>
            /\ routing.served[k].status = 200
            /\ routing.served[k].body.kind = "object"
            /\ "clients" \in routing.served[k].body.keys


(***************************************************************************)
(* C24  Sliding-window rate limiting: after any sequence of requests with  *)
(* non-decreasing timestamps, for every key the number of admitted         *)
(* requests within the last window seconds never exceeds the limit; a      *)
(* request is rejected (429, or (False, 0) from allow) exactly when limit  *)
(* admitted requests of that key are still inside the window; a rejected   *)
(* request is not recorded; requests of one key never change the admission *)
(* of another key.  A timestamp t is inside the window at time now when    *)
(* t >= now - window.  C24_SlidingWindowAsClaimed fails for rate_limit     *)
(* with RATE_LIMIT_ENABLED false (app.py:232-233), which admits every      *)
(* request; C24_SlidingWindow states the claim for the enabled limiter and *)
(* what the disabled one does.                                             *)
(***************************************************************************)
\* The admitted requests of key k among the first n, inside the window at t
AdmittedInside(k, n, t) ==
    {j \in 1..n : /\ limiter.hits[j].key = k
                  /\ limiter.hits[j].allowed
                  /\ limiter.hits[j].at >= t - limiter.window}

\* The timestamps of the admitted requests of key k, in order
AdmittedTimes(k) ==
    LET adm == SelectSeq(limiter.hits, LAMBDA h : h.key = k /\ h.allowed)
    IN  [i \in 1..Len(adm) |-> adm[i].at]

\* s is a suffix of t
IsSuffix(s, t) ==
    /\ Len(s) <= Len(t)
    /\ \A i \in 1..Len(s) : s[i] = t[Len(t) - Len(s) + i]

SlidingWindowHolds ==
    /\ \A k \in LimiterKeys :
          Cardinality(AdmittedInside(k, Len(limiter.hits), limiter.now)) <= limiter.limit
    /\ \A i \in DOMAIN limiter.hits :
          LET h == limiter.hits[i]
              inside == Cardinality(AdmittedInside(h.key, i - 1, h.at))
          IN  /\ ~h.allowed <=> inside >= limiter.limit
              /\ ~h.allowed => inside = limiter.limit /\ h.status = 429 /\ h.remaining = 0
    /\ \A k \in LimiterKeys : IsSuffix(limiter.log[k], AdmittedTimes(k))

C24_SlidingWindowAsClaimed == SlidingWindowHolds

C24_SlidingWindow ==
    /\ limiter.enabled => SlidingWindowHolds
    /\ ~limiter.enabled =>
          /\ \A i \in DOMAIN limiter.hits : limiter.hits[i].allowed
          /\ \A k \in LimiterKeys : limiter.log[k] = <<>>

\* Limit 2, window 1: one address is admitted twice at second 0 and rejected
\* at second 1, when both are still inside the window, while the other
\* address is admitted at second 1
C24_Witness ==
    /\ limiter.enabled
    /\ limiter.limit = 2
    /\ limiter.window = 1
    /\ limiter.now = 1
    /\ Len(limiter.hits) = 3
    /\ \E k \in LimiterKeys :
          /\ limiter.hits[1] = [key |-> k, at |-> 0, allowed |-> TRUE, status |-> 200,
                                remaining |-> limiter.hits[1].remaining]
          /\ limiter.hits[2].key = k /\ limiter.hits[2].at = 0 /\ limiter.hits[2].allowed
          /\ limiter.hits[3].key = k /\ limiter.hits[3].at = 1 /\ ~limiter.hits[3].allowed
          /\ limiter.log[k] = <<0, 0>>


(***************************************************************************)
(* C25  An uploaded history object is read only on behalf of its owner:    *)
(* every endpoint that reads, analyses, presigns or deletes a              *)
(* caller-supplied key serves the request only if the key starts with      *)
(* <upload prefix><caller's sub>/ and contains no ".."; a caller with no    *)
(* verified sub, or a key under another user's prefix, is refused.         *)
(* /analyze?key, /benchmarks?key and /export/pdf?key read the key with     *)
(* _read_history_csv_text and never call _key_allowed_for_user.            *)
(***************************************************************************)
C25_KeyServedOnlyToOwner ==
    \A i \in DOMAIN history.requests :
        LET r == history.requests[i]
        IN  r.status = 200 =>
                /\ r.caller.verified
                /\ r.caller.sub # None
                /\ Len(r.key) >= 3
                /\ r.key[1] = UploadPrefix
                /\ r.key[2] = r.caller.sub
                /\ \A j \in DOMAIN r.key : r.key[j] # ".."


(***************************************************************************)
(* C26  POST /budgets changes stored budgets only for an authorised caller *)
(* and only in that caller's own record: a caller who is neither a         *)
(* verified Cognito user nor covered by ALLOW_PUBLIC_ACTIONS gets 401 and  *)
(* no stored budget changes; a verified user writes only the record keyed  *)
(* by their own sub; an anonymous or public-demo caller writes only the    *)
(* PUBLIC_BUDGET_SUB record; no sequence of POST /budgets calls by one     *)
(* user changes what GET /budgets returns for a different verified user.   *)
(***************************************************************************)
\* The caller of post k is a verified Cognito user
VerifiedPost(k) == records.cognito_enabled /\ records.posts[k].cred.kind = "valid"

\* The store after post k
StoreAfter(k) ==
    IF k = Len(records.posts) THEN records.store ELSE records.posts[k + 1].before

\* The records post k changed
Changed(k) == {p \in BudgetsPaths : StoreAfter(k)[p] # records.posts[k].before[p]}

\* The posts of the verified user sub
PostsOf(sub) ==
    {k \in DOMAIN records.posts : VerifiedPost(k) /\ records.posts[k].cred.sub = sub}

C26_BudgetsWrittenByOwnerOnly ==
    /\ \A k \in DOMAIN records.posts :
          LET post == records.posts[k]
          IN  /\ (~VerifiedPost(k) /\ ~records.allow_public) =>
                    post.status = 401 /\ Changed(k) = {}
              /\ post.status # 200 => Changed(k) = {}
              /\ (VerifiedPost(k) /\ post.cred.sub # None) =>
                    \A p \in Changed(k) : p[2] = post.cred.sub
              /\ (~VerifiedPost(k) \/ post.cred.sub = None) =>
                    \A p \in Changed(k) : p[2] = PUBLIC_BUDGET_SUB
    /\ \A sub \in {"alice", "bob"}, tenant \in TenantParams :
          \A k \in DOMAIN records.posts \ PostsOf(sub) :
              LET cred == [kind |-> "valid", sub |-> sub]
                  was == get_budgets(cred, tenant, [records EXCEPT !.store = records.posts[k].before])
                  is  == get_budgets(cred, tenant, [records EXCEPT !.store = StoreAfter(k)])
              IN  records.cognito_enabled => was = is

\* Alice saves a budget that Bob's later save leaves as it was
C26_Witness ==
    /\ records.cognito_enabled
    /\ Len(records.posts) = 2
    /\ records.posts[1].cred = [kind |-> "valid", sub |-> "alice"]
    /\ records.posts[1].status = 200
    /\ records.posts[2].cred = [kind |-> "valid", sub |-> "bob"]
    /\ records.posts[2].status = 200
    /\ records.posts[1].tenant = records.posts[2].tenant
    /\ Changed(1) # {}
    /\ Changed(2) # {}
    /\ get_budgets([kind |-> "valid", sub |-> "alice"], records.posts[1].tenant, records).budgets
          = ("A" :> 100000)


(***************************************************************************)
(* C27  Budget save/load round trip: whenever _save_budgets_for_user       *)
(* returns True for a (sub, tenant), the next _load_budgets_for_user for   *)
(* the same (sub, tenant) returns exactly the cleaned map that was saved,  *)
(* in every storage situation (S3 not configured; S3 configured and the    *)
(* write succeeds; S3 configured and the write fails so the save falls     *)
(* back to the local file), and a later successful save fully replaces the *)
(* earlier one.                                                            *)
(***************************************************************************)
\* The floats of a cleaned map, in thousandths
FloatsOf(m) == [k \in DOMAIN m |-> m[k].num]

C27_SaveLoadRoundTrip ==
    storage.last.op = "load" =>
        LET path == BudgetsPath(storage.tenanted, storage.last.sub, storage.last.tenant)
        IN  storage.saved[path].present =>
                storage.last.loaded = FloatsOf(storage.saved[path].json)


(***************************************************************************)
(* C28  cognito_optional_user follows its documented policy: with          *)
(* REQUIRE_AUTH=false a request is always allowed as anonymous (no 401)    *)
(* when it carries no valid token, whatever is wrong with the token        *)
(* (absent, unknown signing key, bad signature, expired, wrong audience);  *)
(* with REQUIRE_AUTH=true every request without a valid token is rejected  *)
(* with 401; and verified claims are returned only for a token whose       *)
(* signature, expiry and audience checks all pass.                         *)
(***************************************************************************)
\* The signature, expiry and audience checks of the header all pass
ChecksPass(t, c) ==
    /\ t.bearer /\ t.wellformed /\ t.kid_known /\ t.sig_ok
    /\ t.exp # "past"
    /\ c.audience_set => t.aud_ok

C28_OptionalUserPolicy ==
    auth.called =>
        /\ (~auth.config.require_auth /\ ~ChecksPass(auth.header, auth.config)) =>
                ~auth.outcome.raises
        /\ (auth.config.require_auth /\ ~ChecksPass(auth.header, auth.config)) =>
                auth.outcome = Raise401
        /\ auth.outcome = ReturnClaims => ChecksPass(auth.header, auth.config)


(***************************************************************************)
(* C29  get_ai_json never raises and terminates after a bounded number of  *)
(* model invocations: for every behaviour of the model endpoint (client    *)
(* unavailable, invocation error, rejection of JSON mode, non-JSON text,   *)
(* JSON that is not an object) it returns a pair (parsed, source_tag) in   *)
(* which parsed is a dict or None, with parsed = None and tag              *)
(* "bedrock-unavailable" or "bedrock-error" when no answer was obtained;   *)
(* with retries = 0 no second attempt is made after an error.              *)
(***************************************************************************)
\* Three _try at most, each with one re-invocation: six invocations
C29_AiJsonSafe ==
    /\ aicall.invocations <= 6
    /\ aicall.retries = 0 => aicall.tries_after_error = 0
    /\ aicall.pc = "done" =>
          /\ aicall.parsed.kind \in {"dict", "None"}
          /\ ~aicall.answered =>
                /\ aicall.parsed = PyNone
                /\ aicall.tag \in {"bedrock-unavailable", "bedrock-error"}


(***************************************************************************)
(* C30  Executing an action through the actions router stores the action   *)
(* log row first and treats the history entry as best effort: the          *)
(* ActionLog row is committed before the history write is attempted; if    *)
(* the history insert or commit fails it is rolled back, the already       *)
(* committed ActionLog row stays stored, and the response is still ok=True *)
(* with the new row's actionId; when nothing fails, exactly one ActionLog  *)
(* row and one "action_executed" HistoryEvent are added per call.          *)
(***************************************************************************)
\* The last request added exactly one ActionLog row, with the answered id
OneActionAdded ==
    /\ Len(db.action_logs) = Len(db.last.action_logs) + 1
    /\ SubSeq(db.action_logs, 1, Len(db.last.action_logs)) = db.last.action_logs
    /\ db.action_logs[Len(db.action_logs)].id = db.last.response.actionId
    /\ \A i \in 1..Len(db.last.action_logs) :
          db.action_logs[i].id # db.last.response.actionId

C30_ActionStoredHistoryBestEffort ==
    db.executions > 0 =>
        /\ db.pending_actions = <<>> /\ db.pending_history = <<>>
        /\ db.last.history_tried =>
              Len(db.last.at_history) = Len(db.last.action_logs) + 1
        /\ db.last.fails \in {"history_add", "history_commit"} =>
              /\ db.last.response.ok /\ db.last.response.status = 200
              /\ OneActionAdded
              /\ db.history_events = db.last.history_events
        /\ db.last.fails = "none" =>
              /\ db.last.response.ok
              /\ OneActionAdded
              /\ Len(db.history_events) = Len(db.last.history_events) + 1
              /\ SubSeq(db.history_events, 1, Len(db.last.history_events))
                    = db.last.history_events
              /\ db.history_events[Len(db.history_events)].kind = "action_executed"

\* After a stored action with its history entry, the history commit of a
\* second action fails
C30_Witness ==
    /\ db.executions = 2
    /\ db.last.fails = "history_commit"
    /\ Len(db.action_logs) = 2
    /\ Len(db.history_events) = 1
    /\ db.last.response = [status |-> 200, ok |-> TRUE, actionId |-> 2]

====
